---- MODULE Spec2Model ----
(***************************************************************************)
(* hnk: the grouping reconciliation engine (package grouper), the analyzer *)
(* boundary (package ai) and the response cache (package cache), modelled  *)
(* from src/internal/ai/claude.go, and the unified-diff parser.            *)
(*                                                                         *)
(* One invocation of Grouper.GroupDiff is a small state machine:           *)
(*   idle --GroupDiff--> done                      (no hunks)              *)
(*   idle --GroupDiff--> describe --GenerateDescriptionReturns--> done     *)
(*   idle --GroupDiff--> analyze  --AnalyzeDiffReturns--> done | panic     *)
(* The two external calls (the claude subprocess) are the points where the *)
(* environment chooses an outcome.  Indices are 0-based as in the Go code; *)
(* TLA+ sequences are 1-based, so At(s, i) reads s[i + 1].                 *)
(*                                                                         *)
(* Spec         one invocation, every analyzer outcome (failures, prose,   *)
(*              every decoded response within the bounds), on Diffs of     *)
(*              every shape with the file attributes fixed by position.    *)
(* SpecFallback repeated invocations on one Diff with a structured call    *)
(*              that never yields JSON, on Diffs of every shape and every  *)
(*              combination of status flags, paths and hunk headers.       *)
(* SpecRun      the invocation of Spec as cmd/hnk makes it: the response   *)
(*              cache is constructed first, its file absent or holding an  *)
(*              entry under the hash of the request text.                  *)
(*                                                                         *)
(* The response cache (package cache) is a list of entries under a byte    *)
(* budget, written to its file by every Set and Clear.                     *)
(* SpecCache    any sequence of Set, Get, Clear and TotalSize on a cache   *)
(*              constructed over an absent file or a file the program      *)
(*              wrote; the clock may give one reading twice.               *)
(*                                                                         *)
(* diff.Parse (src/internal/diff/parser.go) reads its input line by line;  *)
(* a line is a sequence of characters and the regular expressions of the   *)
(* parser are operators on such sequences.  Go's int is IntBits wide.      *)
(* SpecParse    one call of Parse on every input of at most MaxLines lines *)
(*              of InputLines, one step per line scanned.                  *)
(* SpecRoundTrip the same, and the Diff returned is written out with       *)
(*              RawString and parsed once more.                            *)
(*                                                                         *)
(* SpecStore    Set and Clear on a cache and its construction anew from    *)
(*              the file, the file being JSON text: absent, no JSON, as    *)
(*              json.Marshal writes it, or with a damaged timestamp.       *)
(* SpecConfig   one call of config.Load (src/internal/config/config.go) on *)
(*              every state of ~/.hnk, ~/.hnk.tmp and ~/.hnk/config.json.  *)
(* SpecCatalog  one call of ai.BuildCatalog on every list of files within  *)
(*              the bounds.                                                *)
(* SpecSpinner  one Spinner (src/internal/spinner/spinner.go) as GroupDiff *)
(*              uses it: the caller and the goroutine of Start, step by    *)
(*              step, with at most MaxFrames frames.                       *)
(* SpecTui      the terminal program (src/internal/tui/tui.go): the Model  *)
(*              of New under every sequence of key and window-size         *)
(*              messages, Update followed by View per message.             *)
(***************************************************************************)
EXTENDS Integers, Sequences, FiniteSets, TLC

\* ------------------------------------------------------------------ bounds
MaxFiles == 2
MaxHunks == 2
MaxGroups == 2
MaxIndices == 4
MaxRuns == 2

\* ----------------------------------------------------------------- helpers
At(s, i) == s[i + 1]

Max(a, b) == IF a < b THEN b ELSE a

RECURSIVE CountHunks(_, _)
CountHunks(files, k) == IF k > Len(files) THEN 0
                        ELSE Len(files[k].Hunks) + CountHunks(files, k + 1)

\* ------------------------------------------------- diff model (diff.Diff)
\* diff.Hunk: the fields the grouper reads (NewStart, Header).
Headers == {"", "func main()"}

\* Hunks of one file are in ascending NewStart order; the k-th (1-based)
\* hunk of a file starts at this line.
NewStartOf(k) == 1 + 20 * (k - 1)

HunkSeqs == UNION {{[k \in 1..n |-> [NewStart |-> NewStartOf(k), Header |-> hd[k]]] :
                        hd \in [1..n -> Headers]} : n \in 0..MaxHunks}

NewPathOf(i) == "new" \o ToString(i) \o ".go"

OldPathOf(i) == "old" \o ToString(i) \o ".go"

\* diff.FileDiff at position i (0-based) of a Diff, every combination of the
\* status flags the parser can set.
FileDiffs(i) == {[OldPath |-> op, NewPath |-> NewPathOf(i),
                  IsNew |-> n, IsDeleted |-> dl, IsRenamed |-> r, Hunks |-> hs] :
                     op \in {NewPathOf(i), OldPathOf(i)},
                     n \in BOOLEAN, dl \in BOOLEAN, r \in BOOLEAN, hs \in HunkSeqs}

\* The same with the flags fixed by the position: file 0 is a plain
\* modification, the others are renames.
PlainFileDiffs(i) == {[OldPath |-> IF i = 0 THEN NewPathOf(i) ELSE OldPathOf(i),
                       NewPath |-> NewPathOf(i),
                       IsNew |-> FALSE, IsDeleted |-> FALSE, IsRenamed |-> (i > 0),
                       Hunks |-> [k \in 1..n |-> [NewStart |-> NewStartOf(k),
                                   Header |-> IF k = 1 THEN "func main()" ELSE ""]]] :
                          n \in 0..MaxHunks}

\* diff.Diff: Files, a sequence of at most MaxFiles files.
RECURSIVE FileSeqs(_)
FileSeqs(n) == IF n = 0 THEN {<<>>}
               ELSE {Append(s, f) : s \in FileSeqs(n - 1), f \in FileDiffs(n - 1)}

RECURSIVE PlainFileSeqs(_)
PlainFileSeqs(n) == IF n = 0 THEN {<<>>}
                    ELSE {Append(s, f) : s \in PlainFileSeqs(n - 1), f \in PlainFileDiffs(n - 1)}

Diffs == {[Files |-> fs] : fs \in UNION {FileSeqs(n) : n \in 0..MaxFiles}}

PlainDiffs == {[Files |-> fs] : fs \in UNION {PlainFileSeqs(n) : n \in 0..MaxFiles}}

\* ------------------------------------------ analyzer boundary (package ai)
\* ai.SemanticGroup as decoded from the response: Title, Description,
\* FileIndices ([]int) and HunkIndices ([][]int).  Index values range over
\* negative, valid and too-large numbers.
Indices == -1..(Max(MaxFiles, MaxHunks) - 1)

\* The k-th proposed group of a response carries this title and description.
AiTitle(k) == "Proposed change " \o ToString(k)

AiDescription(k) == "Analyzer description " \o ToString(k)

\* Lists of exactly w indices.
IndexList(w) == [1..w -> Indices]

\* Sequences of at most n index lists holding exactly w indices in total.
RECURSIVE IndexLists(_, _)
IndexLists(n, w) ==
    IF n = 0 THEN (IF w = 0 THEN {<<>>} ELSE {})
    ELSE (IF w = 0 THEN {<<>>} ELSE {})
         \cup UNION {{<<l>> \o rest : l \in IndexList(x), rest \in IndexLists(n - 1, w - x)} :
                         x \in 0..w}

\* The index part of a proposed group holding exactly w indices in all: a
\* list of file indices and a parallel, possibly shorter, list of hunk index
\* lists.
ProposedIndices(w) ==
    UNION {UNION {{[FileIndices |-> fi, HunkIndices |-> hi] : hi \in IndexLists(Len(fi), w - x)} :
                      fi \in IndexList(x)} : x \in 0..w}

ProposedByWeight == [w \in 0..MaxIndices |-> ProposedIndices(w)]

\* Index parts of responses of at most n groups and at most w indices in total.
RECURSIVE ProposedSeqs(_, _)
ProposedSeqs(n, w) ==
    IF n = 0 THEN {<<>>}
    ELSE {<<>>} \cup UNION {{<<g>> \o rest : g \in ProposedByWeight[x],
                                             rest \in ProposedSeqs(n - 1, w - x)} : x \in 0..w}

\* ai.SemanticAnalysis.Groups: the decoded groups of a response.
Analyses == {[k \in 1..Len(ps) |-> [Title |-> AiTitle(k), Description |-> AiDescription(k),
                                     FileIndices |-> ps[k].FileIndices,
                                     HunkIndices |-> ps[k].HunkIndices]] :
                 ps \in ProposedSeqs(MaxGroups, MaxIndices)}

\* The text the claude subprocess writes to stdout, as a sequence of tokens:
\* white space, an opening ```json fence, a bare ``` fence, prose, or one
\* JSON value that decodes into the groups v.
Tok(t) == [t |-> t, v |-> <<>>]

JsonTok(a) == [t |-> "json", v |-> a]

IsSpace(tok) == tok.t = "ws"

\* strings.TrimSpace
RECURSIVE TrimLeft(_)
TrimLeft(text) == IF text # <<>> /\ IsSpace(Head(text)) THEN TrimLeft(Tail(text)) ELSE text

RECURSIVE TrimRight(_)
TrimRight(text) == IF text # <<>> /\ IsSpace(text[Len(text)])
                   THEN TrimRight(SubSeq(text, 1, Len(text) - 1)) ELSE text

TrimSpace(text) == TrimRight(TrimLeft(text))

\* strings.TrimPrefix / strings.TrimSuffix with a one-token prefix or suffix
TrimPrefix(text, t) == IF text # <<>> /\ Head(text).t = t THEN Tail(text) ELSE text

TrimSuffix(text, t) == IF text # <<>> /\ text[Len(text)].t = t
                       THEN SubSeq(text, 1, Len(text) - 1) ELSE text

\* json.Unmarshal into SemanticAnalysis: succeeds on exactly one JSON value.
Unmarshal(text) == IF Len(text) = 1 /\ text[1].t = "json"
                   THEN [err |-> "nil", Groups |-> text[1].v]
                   ELSE [err |-> "parse", Groups |-> <<>>]

parseAnalysisResponse(response) ==
    Unmarshal(TrimSpace(TrimSuffix(TrimPrefix(TrimPrefix(TrimSpace(response),
                                                         "fence-json"), "fence"), "fence")))

\* What one run of the claude subprocess can end in: a failure of cmd.Run
\* (non-zero exit or missing binary, the 120s timeout, a cancelled context)
\* or a completed run with its stdout.
RunFailures == {"exit", "timeout", "cancelled"}

FailedRuns == {[kind |-> k, text |-> <<>>] : k \in RunFailures}

\* Ways of wrapping a JSON value or prose in the response text.
Wrappings == {"bare", "spaces", "json-fence", "fence"}

Wrap(w, tok) ==
    CASE w = "bare" -> <<tok>>
      [] w = "spaces" -> <<Tok("ws"), tok, Tok("ws")>>
      [] w = "json-fence" -> <<Tok("fence-json"), Tok("ws"), tok, Tok("ws"), Tok("fence"), Tok("ws")>>
      [] w = "fence" -> <<Tok("fence"), tok, Tok("fence")>>

ProseTexts == {Wrap(w, Tok("prose")) : w \in Wrappings}
                  \cup {<<>>, <<Tok("prose"), Tok("ws"), JsonTok(<<>>)>>,
                        <<JsonTok(<<>>), Tok("ws"), Tok("prose")>>}

JsonTexts == {Wrap(w, JsonTok(a)) : w \in Wrappings, a \in Analyses}

StdoutRuns(texts) == {[kind |-> "stdout", text |-> t] : t \in texts}

\* ClaudeCLI.AnalyzeDiff: the error and the decoded groups
AnalyzeDiff(outcome) == IF outcome.kind # "stdout" THEN [err |-> outcome.kind, Groups |-> <<>>]
                        ELSE parseAnalysisResponse(outcome.text)

\* The stdout of the description call: words and white space.
DescriptionTexts == {<<>>, <<"Adds a parser.">>, <<"Adds a parser.", "\n">>,
                     <<" ", "Adds", " ", "a parser.", "\n", "\n">>}

IsBlank(w) == w \in {" ", "\n"}

RECURSIVE TrimLeftStr(_)
TrimLeftStr(ws) == IF ws # <<>> /\ IsBlank(Head(ws)) THEN TrimLeftStr(Tail(ws)) ELSE ws

RECURSIVE TrimRightStr(_)
TrimRightStr(ws) == IF ws # <<>> /\ IsBlank(ws[Len(ws)])
                    THEN TrimRightStr(SubSeq(ws, 1, Len(ws) - 1)) ELSE ws

RECURSIVE Join(_)
Join(ws) == IF ws = <<>> THEN "" ELSE Head(ws) \o Join(Tail(ws))

\* ClaudeCLI.GenerateDescription: the error and the trimmed stdout
GenerateDescription(outcome) ==
    IF outcome.kind # "stdout" THEN [err |-> outcome.kind, desc |-> ""]
    ELSE [err |-> "nil", desc |-> Join(TrimRightStr(TrimLeftStr(outcome.text)))]

\* ------------------------------------------------ catalog (ai.BuildCatalog)
\* ai.HunkInfo and ai.FileInfo values: hunks with and without lines, files
\* that are new, deleted or neither.
HunkInfos == {[Start |-> 1, Count |-> 3, Header |-> "func main()", Adds |-> 2, Removes |-> 1],
              [Start |-> 21, Count |-> 0, Header |-> "", Adds |-> 0, Removes |-> 4]}

RECURSIVE HunkInfoSeqs(_)
HunkInfoSeqs(n) == IF n = 0 THEN {<<>>}
                   ELSE HunkInfoSeqs(n - 1) \cup
                        {Append(hs, h) : hs \in {q \in HunkInfoSeqs(n - 1) : Len(q) = n - 1},
                                         h \in HunkInfos}

FileInfos == {[Path |-> p, IsNew |-> n, IsDeleted |-> dl, Hunks |-> hs] :
                 p \in {"main.go"}, n \in BOOLEAN, dl \in BOOLEAN, hs \in HunkInfoSeqs(MaxHunks)}

RECURSIVE FileInfoSeqs(_)
FileInfoSeqs(n) == IF n = 0 THEN {<<>>}
                   ELSE FileInfoSeqs(n - 1) \cup
                        {Append(fs, f) : fs \in {q \in FileInfoSeqs(n - 1) : Len(q) = n - 1},
                                         f \in {g \in FileInfos : ~(g.IsNew /\ g.IsDeleted)}}

\* A BuildCatalog that numbers the hunks from 1.
HunkCatalogFromOne(j, h) ==
    [Index |-> j + 1, Start |-> h.Start, End |-> h.Start + h.Count, Header |-> h.Header,
     Adds |-> h.Adds, Removes |-> h.Removes]

\* BuildCatalog, the HunkCatalog of hunk h at position j.
HunkCatalog(j, h) ==
    [Index |-> j, Start |-> h.Start, End |-> h.Start + h.Count, Header |-> h.Header,
     Adds |-> h.Adds, Removes |-> h.Removes]

\* BuildCatalog, the inner loop from hunk j on: acc is <<fc, catalog>>.
RECURSIVE catalogHunks(_, _, _)
catalogHunks(f, j, acc) ==
    IF j >= Len(f.Hunks) THEN acc
    ELSE catalogHunks(f, j + 1,
             [fc |-> [acc.fc EXCEPT !.Hunks = Append(@, HunkCatalog(j, At(f.Hunks, j)))],
              catalog |-> [acc.catalog EXCEPT !.TotalHunks = @ + 1]])

\* BuildCatalog, the outer loop from file i on.
RECURSIVE catalogFiles(_, _, _)
catalogFiles(files, i, catalog) ==
    IF i >= Len(files) THEN catalog
    ELSE LET f == At(files, i)
             fc == [Index |-> i, Path |-> f.Path, IsNew |-> f.IsNew, IsDelete |-> f.IsDeleted,
                    Hunks |-> <<>>]
             acc == catalogHunks(f, 0, [fc |-> fc, catalog |-> catalog])
         IN catalogFiles(files, i + 1, [acc.catalog EXCEPT !.Files = Append(@, acc.fc)])

BuildCatalog(files) == catalogFiles(files, 0, [Files |-> <<>>, TotalHunks |-> 0])

\* ------------------------------------------------------- package grouper
\* grouper.GroupedHunk: the file and the hunk a reference points to, by
\* index; InDiff says whether the pointers lead into d.Files itself.
GroupedHunk(fileIdx, hunkIdx, inDiff) == [File |-> fileIdx, Hunk |-> hunkIdx, InDiff |-> inDiff]

\* generateTitle with the rename test moved to the front
generateTitleRenameFirst(f, h) ==
    IF f.IsRenamed THEN "Rename " \o f.OldPath \o " to " \o f.NewPath
    ELSE IF f.IsNew THEN "Add " \o f.NewPath
    ELSE IF f.IsDeleted THEN "Remove " \o f.OldPath
    ELSE IF h.Header # "" THEN "Update " \o h.Header \o " in " \o f.NewPath
    ELSE "Modify " \o f.NewPath

generateTitle(f, h) ==
    IF f.IsNew THEN "Add " \o f.NewPath
    ELSE IF f.IsDeleted THEN "Remove " \o f.OldPath
    ELSE IF f.IsRenamed THEN "Rename " \o f.OldPath \o " to " \o f.NewPath
    ELSE IF h.Header # "" THEN "Update " \o h.Header \o " in " \o f.NewPath
    ELSE "Modify " \o f.NewPath

\* hunkKey with its two arguments swapped
hunkKeySwapped(fileIdx, hunkIdx) == ToString(hunkIdx) \o "-" \o ToString(fileIdx)

\* The key of the usedHunks map, fmt.Sprintf("%d-%d", fileIdx, hunkIdx), as
\* built in the loop over the proposed groups and in the final sweep.
hunkKey(fileIdx, hunkIdx) == ToString(fileIdx) \o "-" \o ToString(hunkIdx)

sweepKey(fileIdx, hunkIdx) == ToString(fileIdx) \o "-" \o ToString(hunkIdx)

\* usedHunk without the lookup
usedHunkNever(used, key) == FALSE

\* usedHunks[key]
usedHunk(used, key) == key \in used

\* The hunks of one file in fallbackGrouping's inner loop, from hunk j on.
RECURSIVE fallbackHunks(_, _, _)
fallbackHunks(d, i, j) ==
    LET file == At(d.Files, i) IN
    IF j >= Len(file.Hunks) THEN <<>>
    ELSE <<[Title |-> generateTitle(file, At(file.Hunks, j)),
            Description |-> "Changes to " \o file.NewPath \o " around line "
                               \o ToString(At(file.Hunks, j).NewStart),
            Hunks |-> <<GroupedHunk(i, j, TRUE)>>]>> \o fallbackHunks(d, i, j + 1)

RECURSIVE fallbackFiles(_, _)
fallbackFiles(d, i) == IF i >= Len(d.Files) THEN <<>>
                       ELSE fallbackHunks(d, i, 0) \o fallbackFiles(d, i + 1)

\* fallbackGrouping with one group per file instead of one per hunk
fallbackGroupingPerFile(d) ==
    LET withHunks == SelectSeq([i \in 1..Len(d.Files) |-> i - 1],
                               LAMBDA i : Len(At(d.Files, i).Hunks) > 0)
    IN [k \in 1..Len(withHunks) |->
           LET file == At(d.Files, withHunks[k]) IN
           [Title |-> generateTitle(file, At(file.Hunks, 0)),
            Description |-> "Changes to " \o file.NewPath,
            Hunks |-> [j \in 1..Len(file.Hunks) |-> GroupedHunk(withHunks[k], j - 1, TRUE)]]]

fallbackGrouping(d) == fallbackFiles(d, 0)

\* A range check of the file index that forgets the upper end.
fileIdxNegative(d, fileIdx) == fileIdx < 0

\* The two range checks of buildGroups and its test for emitting a group.
fileIdxOutOfRange(d, fileIdx) == fileIdx < 0 \/ fileIdx >= Len(d.Files)

hunkIdxOutOfRange(file, hunkIdx) == hunkIdx < 0 \/ hunkIdx >= Len(file.Hunks)

\* emitGroup without the test for an empty group
emitGroupAlways(hunks) == TRUE

emitGroup(hunks) == Len(hunks) > 0

\* Go's run-time check of a slice index.
InRange(s, i) == 0 <= i /\ i < Len(s)

\* A buildGroups that takes no hunk of a file without a list.
hunkIndicesAtListed(ag, i, file) == IF i < Len(ag.HunkIndices) THEN At(ag.HunkIndices, i)
                                    ELSE <<>>

\* The hunk indices buildGroups takes for the file at position i (0-based)
\* of ag.FileIndices: the i-th list of ag.HunkIndices, or every hunk of the
\* file when that list is missing.
hunkIndicesAt(ag, i, file) == IF i < Len(ag.HunkIndices) THEN At(ag.HunkIndices, i)
                              ELSE [j \in 1..Len(file.Hunks) |-> j - 1]

\* buildGroups, innermost loop from position k (1-based) of hunkIndices on.
\* acc = [Hunks: the group's hunks so far, used: the usedHunks keys,
\*        panic: an index was out of range at run time].
RECURSIVE addHunkIndices(_, _, _, _, _)
addHunkIndices(d, fileIdx, hunkIndices, k, acc) ==
    IF k > Len(hunkIndices) \/ acc.panic THEN acc
    ELSE LET hunkIdx == hunkIndices[k]
             file == At(d.Files, fileIdx)
             key == hunkKey(fileIdx, hunkIdx)
         IN addHunkIndices(d, fileIdx, hunkIndices, k + 1,
                IF hunkIdxOutOfRange(file, hunkIdx) THEN acc
                ELSE IF usedHunk(acc.used, key) THEN acc
                ELSE IF ~InRange(file.Hunks, hunkIdx) THEN [acc EXCEPT !.panic = TRUE]
                ELSE [acc EXCEPT !.used = @ \cup {key},
                                 !.Hunks = Append(@, GroupedHunk(fileIdx, hunkIdx, TRUE))])

\* buildGroups, the loop over ag.FileIndices from position k (1-based) on.
RECURSIVE addFileIndices(_, _, _, _)
addFileIndices(d, ag, k, acc) ==
    IF k > Len(ag.FileIndices) \/ acc.panic THEN acc
    ELSE LET fileIdx == ag.FileIndices[k] IN
         addFileIndices(d, ag, k + 1,
                IF fileIdxOutOfRange(d, fileIdx) THEN acc
                ELSE IF ~InRange(d.Files, fileIdx) THEN [acc EXCEPT !.panic = TRUE]
                ELSE addHunkIndices(d, fileIdx,
                                    hunkIndicesAt(ag, k - 1, At(d.Files, fileIdx)), 1, acc))

\* buildGroups, the loop over analysis.Groups from position k (1-based) on.
\* acc = [groups, used, panic].
RECURSIVE addGroups(_, _, _, _)
addGroups(d, analysis, k, acc) ==
    IF k > Len(analysis) \/ acc.panic THEN acc
    ELSE LET ag == analysis[k]
             g == addFileIndices(d, ag, 1, [Hunks |-> <<>>, used |-> acc.used, panic |-> FALSE])
         IN addGroups(d, analysis, k + 1,
                [groups |-> IF emitGroup(g.Hunks)
                            THEN Append(acc.groups, [Title |-> ag.Title,
                                                     Description |-> ag.Description,
                                                     Hunks |-> g.Hunks])
                            ELSE acc.groups,
                 used |-> g.used, panic |-> g.panic])

\* sweep putting each singleton group in front of the groups
RECURSIVE sweepPrepending(_, _, _, _)
sweepPrepending(d, fileIdx, hunkIdx, acc) ==
    IF fileIdx >= Len(d.Files) THEN acc
    ELSE LET f == At(d.Files, fileIdx) IN
         IF hunkIdx >= Len(f.Hunks) THEN sweepPrepending(d, fileIdx + 1, 0, acc)
         ELSE LET key == sweepKey(fileIdx, hunkIdx) IN
              sweepPrepending(d, fileIdx, hunkIdx + 1,
                    IF usedHunk(acc.used, key) THEN acc
                    ELSE [acc EXCEPT !.used = @ \cup {key},
                                     !.groups = <<[Title |-> generateTitle(f, At(f.Hunks, hunkIdx)),
                                                   Description |-> "Additional changes to " \o f.NewPath,
                                                   Hunks |-> <<GroupedHunk(fileIdx, hunkIdx, TRUE)>>]>> \o @])

\* buildGroups, the final sweep over every hunk of every file, from
\* (fileIdx, hunkIdx) on.
RECURSIVE sweep(_, _, _, _)
sweep(d, fileIdx, hunkIdx, acc) ==
    IF fileIdx >= Len(d.Files) THEN acc
    ELSE LET f == At(d.Files, fileIdx) IN
         IF hunkIdx >= Len(f.Hunks) THEN sweep(d, fileIdx + 1, 0, acc)
         ELSE LET key == sweepKey(fileIdx, hunkIdx) IN
              sweep(d, fileIdx, hunkIdx + 1,
                    IF usedHunk(acc.used, key) THEN acc
                    ELSE [acc EXCEPT !.used = @ \cup {key},
                                     !.groups = Append(@,
                                         [Title |-> generateTitle(f, At(f.Hunks, hunkIdx)),
                                          Description |-> "Additional changes to " \o f.NewPath,
                                          Hunks |-> <<GroupedHunk(fileIdx, hunkIdx, TRUE)>>])])

\* Grouper.buildGroups: [panic, groups]
buildGroups(d, analysis) ==
    LET proposed == addGroups(d, analysis, 1, [groups |-> <<>>, used |-> {}, panic |-> FALSE])
    IN IF proposed.panic THEN [panic |-> TRUE, groups |-> <<>>]
       ELSE [panic |-> FALSE, groups |-> sweep(d, 0, 0, proposed).groups]

\* singleHunkGroup naming the old path in the substitute description
singleHunkGroupOldPath(d, r) ==
    IF ~InRange(d.Files, 0) THEN [panic |-> TRUE, groups |-> <<>>]
    ELSE LET file == At(d.Files, 0) IN
         IF ~InRange(file.Hunks, 0) THEN [panic |-> TRUE, groups |-> <<>>]
         ELSE LET hunk == At(file.Hunks, 0)
                  desc == IF r.err # "nil" THEN "Changes to " \o file.OldPath ELSE r.desc
              IN [panic |-> FALSE,
                  groups |-> <<[Title |-> generateTitle(file, hunk),
                                Description |-> desc,
                                Hunks |-> <<GroupedHunk(0, 0, FALSE)>>]>>]

\* Grouper.singleHunkGroup after GenerateDescription has returned r:
\* [panic, groups].  file and hunk are copies of d.Files[0] and its first hunk.
singleHunkGroup(d, r) ==
    IF ~InRange(d.Files, 0) THEN [panic |-> TRUE, groups |-> <<>>]
    ELSE LET file == At(d.Files, 0) IN
         IF ~InRange(file.Hunks, 0) THEN [panic |-> TRUE, groups |-> <<>>]
         ELSE LET hunk == At(file.Hunks, 0)
                  desc == IF r.err # "nil" THEN "Changes to " \o file.NewPath ELSE r.desc
              IN [panic |-> FALSE,
                  groups |-> <<[Title |-> generateTitle(file, hunk),
                                Description |-> desc,
                                Hunks |-> <<GroupedHunk(0, 0, FALSE)>>]>>]

\* groupDiffPath without the test for a total of zero hunks
groupDiffPathNoHunkCount(d) ==
    IF Len(d.Files) = 0 THEN "empty"
    ELSE IF CountHunks(d.Files, 1) = 1 /\ Len(d.Files) = 1 THEN "single"
    ELSE "general"

\* The branch GroupDiff takes before any call to the analyzer.
groupDiffPath(d) ==
    IF Len(d.Files) = 0 THEN "empty"
    ELSE LET totalHunks == CountHunks(d.Files, 1) IN
         IF totalHunks = 0 THEN "empty"
         ELSE IF totalHunks = 1 /\ Len(d.Files) = 1 THEN "single"
         ELSE "general"

\* groupDiffResult with the analyzer's error reported in the descriptions
groupDiffResultWithError(d, r) ==
    IF r.err # "nil"
    THEN [panic |-> FALSE,
          groups |-> [k \in 1..Len(fallbackGrouping(d)) |->
                         [fallbackGrouping(d)[k] EXCEPT !.Description = @ \o " (" \o r.err \o ")"]]]
    ELSE buildGroups(d, r.Groups)

\* GroupDiff after AnalyzeDiff has returned r: [panic, groups]
groupDiffResult(d, r) == IF r.err # "nil" THEN [panic |-> FALSE, groups |-> fallbackGrouping(d)]
                         ELSE buildGroups(d, r.Groups)

\* groupDiffError handing the analyzer's error to the caller
groupDiffErrorPropagated(err) == err

\* The error GroupDiff returns next to its groups when the analyzer's error
\* was err.
groupDiffError(err) == "nil"

\* ------------------------------------------------ request text (diff.Diff)
\* A field of a record, or the zero value where the model of the record
\* leaves the field out (the grouper's hunks carry NewStart and Header only).
FieldOr(r, name, zero) == IF name \in DOMAIN r THEN r[name] ELSE zero

RECURSIVE rawLines(_)
rawLines(ls) ==
    IF ls = <<>> THEN ""
    ELSE LET l == Head(ls)
             mark == CASE l.Type = "Added" -> "+"
                       [] l.Type = "Removed" -> "-"
                       [] l.Type = "Context" -> " "
         IN mark \o l.Content \o "\n" \o rawLines(Tail(ls))

RECURSIVE rawHunks(_)
rawHunks(hs) ==
    IF hs = <<>> THEN ""
    ELSE LET h == Head(hs)
         IN "@@ -" \o ToString(FieldOr(h, "OldStart", 0)) \o "," \o
            ToString(FieldOr(h, "OldCount", 0)) \o " +" \o ToString(h.NewStart) \o "," \o
            ToString(FieldOr(h, "NewCount", 0)) \o " @@" \o
            (IF h.Header # "" THEN " " \o h.Header ELSE "") \o "\n" \o
            rawLines(FieldOr(h, "Lines", <<>>)) \o rawHunks(Tail(hs))

RECURSIVE rawFiles(_)
rawFiles(fs) ==
    IF fs = <<>> THEN ""
    ELSE LET f == Head(fs)
         IN "diff --git a/" \o f.OldPath \o " b/" \o f.NewPath \o "\n" \o
            rawHunks(f.Hunks) \o rawFiles(Tail(fs))

\* Diff.RawString: the text both analyzer calls of GroupDiff are made with.
RawString(df) == rawFiles(df.Files)

\* ------------------------------------------------------ cache (package cache)
MaxTime == 2

DefaultMaxSize == 5 * 1024 * 1024

\* HashKey: the hex digest of the content, a function of the content alone
\* (two contents of the model never collide).
HashKey(content) == "sha256:" \o content

\* Keys and values of different lengths, so that entries differ in size.
Keys == {"a", "bb", "ccc"}

Values == {"x", "yyyy"}

\* The budgets passed to cache.New; 0 stands for a configuration without one.
ConfiguredSizes == {0, 4, 7}

Times == 0..MaxTime

\* The Entry Set appends for (key, value) at clock reading t.
Entry(key, value, t) ==
    [Key |-> key, Value |-> value, Size |-> Len(key) + Len(value), CreatedAt |-> t]

\* cache.New: the budget of the new Cache.
New(maxSize) == IF maxSize <= 0 THEN DefaultMaxSize ELSE maxSize

\* Cache.Get: the value of the first entry with the key.
Get(entries, key) ==
    IF \E i \in 1..Len(entries) : entries[i].Key = key
    THEN LET i == CHOOSE i \in 1..Len(entries) :
                      /\ entries[i].Key = key
                      /\ \A j \in 1..(i - 1) : entries[j].Key # key
         IN [value |-> entries[i].Value, ok |-> TRUE]
    ELSE [value |-> "", ok |-> FALSE]

\* A Set that keeps the entry it replaces.
removeKeyNever(entries, key) == entries

\* Cache.Set, the loop: entries without the first entry with the key.
removeKey(entries, key) ==
    IF \E i \in 1..Len(entries) : entries[i].Key = key
    THEN LET i == CHOOSE i \in 1..Len(entries) :
                      /\ entries[i].Key = key
                      /\ \A j \in 1..(i - 1) : entries[j].Key # key
         IN SubSeq(entries, 1, i - 1) \o SubSeq(entries, i + 1, Len(entries))
    ELSE entries

\* An evict that sorts the newest entry first.
sortNewestFirst(entries) ==
    {[i \in 1..Len(entries) |-> entries[p[i]]] :
        p \in {q \in [1..Len(entries) -> 1..Len(entries)] :
                  /\ \A i, j \in 1..Len(entries) : i # j => q[i] # q[j]
                  /\ \A i, j \in 1..Len(entries) :
                         i < j => entries[q[i]].CreatedAt >= entries[q[j]].CreatedAt}}

\* Cache.evict, sort.Slice by CreatedAt: the orders the sort can leave the
\* entries in.  The sort is not stable, so entries with equal CreatedAt end
\* in any order.
sortByCreatedAt(entries) ==
    {[i \in 1..Len(entries) |-> entries[p[i]]] :
        p \in {q \in [1..Len(entries) -> 1..Len(entries)] :
                  /\ \A i, j \in 1..Len(entries) : i # j => q[i] # q[j]
                  /\ \A i, j \in 1..Len(entries) :
                         i < j => entries[q[i]].CreatedAt <= entries[q[j]].CreatedAt}}

\* Cache.TotalSize: the sum of the Size fields.
RECURSIVE TotalSize(_)
TotalSize(entries) ==
    IF entries = <<>> THEN 0 ELSE Head(entries).Size + TotalSize(Tail(entries))

\* An evict that never drops the last entry.
RECURSIVE dropOldestButOne(_, _)
dropOldestButOne(entries, maxSize) ==
    IF TotalSize(entries) > maxSize /\ Len(entries) > 1
    THEN dropOldestButOne(Tail(entries), maxSize)
    ELSE entries

\* An evict that drops from the newest end.
RECURSIVE dropNewest(_, _)
dropNewest(entries, maxSize) ==
    IF TotalSize(entries) > maxSize /\ Len(entries) > 0
    THEN dropNewest(SubSeq(entries, 1, Len(entries) - 1), maxSize)
    ELSE entries

\* Cache.evict, the loop: the head is dropped while the total exceeds the
\* budget.
RECURSIVE dropOldest(_, _)
dropOldest(entries, maxSize) ==
    IF TotalSize(entries) > maxSize /\ Len(entries) > 0
    THEN dropOldest(Tail(entries), maxSize)
    ELSE entries

\* Cache.evict: the entries it can leave.
evict(entries, maxSize) == {dropOldest(sorted, maxSize) : sorted \in sortByCreatedAt(entries)}

\* The zero time.Time, earlier than every reading of the clock.
ZeroTime == -1

\* A string of one byte that is not valid UTF-8 (0xFF), and the three bytes
\* of U+FFFD, the character encoding/json writes in the place of such a byte.
BadByte == "#"

ReplacementChar == "(#)"

\* json.Marshal of a string: the text between the quotes of the literal,
\* with the escape of U+FFFD for invalid UTF-8.
jsonString(str) == IF str = BadByte THEN "\\ufffd" ELSE str

\* json.Unmarshal of a string literal, given the text between its quotes.
jsonUnquote(text) == IF text = "\\ufffd" THEN ReplacementChar ELSE text

\* Time.MarshalJSON: the instant as text, without the monotonic reading.
formatTime(t) == ToString(t) \o "Z"

\* A created_at damaged on disk: a JSON string that is no RFC 3339 time.
DamagedTime == "2026-1x-02T00:00:00Z"

\* Time.UnmarshalJSON.
parseTime(text) ==
    IF \E t \in ZeroTime..MaxTime : formatTime(t) = text
    THEN [t |-> CHOOSE t \in ZeroTime..MaxTime : formatTime(t) = text, err |-> FALSE]
    ELSE [t |-> ZeroTime, err |-> TRUE]

\* json.Marshal of the Cache: the objects of the "entries" array, their
\* members in the order of the fields of Entry.
Marshal(entries) ==
    [i \in 1..Len(entries) |->
        [key |-> jsonString(entries[i].Key), value |-> jsonString(entries[i].Value),
         size |-> entries[i].Size, created_at |-> formatTime(entries[i].CreatedAt)]]

\* json.Unmarshal into the Cache, the "entries" array: each object is decoded
\* in place, member by member; at the first created_at that is no time the
\* decoding stops with an error and leaves what it has stored.
RECURSIVE decodeEntries(_)
decodeEntries(objs) ==
    IF objs = <<>> THEN <<>>
    ELSE LET o == Head(objs)
             t == parseTime(o.created_at)
             e == [Key |-> jsonUnquote(o.key), Value |-> jsonUnquote(o.value),
                   Size |-> o.size, CreatedAt |-> t.t]
         IN IF t.err THEN <<e>> ELSE <<e>> \o decodeEntries(Tail(objs))

\* Cache.save: the content of the cache file after the write.
save(entries, path, file) ==
    IF path = "" THEN file ELSE [exists |-> TRUE, valid |-> TRUE, entries |-> Marshal(entries)]

\* The cache file when it does not exist or cannot be read.
NoFile == [exists |-> FALSE, valid |-> FALSE, entries |-> <<>>]

\* A cache file that is no JSON text (cut short, overwritten).
GarbageFile == [exists |-> TRUE, valid |-> FALSE, entries |-> <<>>]

\* Cache.load: the entries after construction, given the cache file.
\* json.Unmarshal checks the syntax of the whole text before it stores
\* anything.
load(path, file) ==
    IF path = "" \/ ~file.exists \/ ~file.valid THEN <<>> ELSE decodeEntries(file.entries)

\* The entries a cache file written by an earlier run can hold: no two with
\* one key, in CreatedAt order, written under any budget.
LoadedCaches ==
    LET written == {Entry(k, v, t) : k \in Keys, v \in Values, t \in 0..1}
    IN {<<>>} \cup {<<e>> : e \in written}
              \cup {es \in {<<e1, e2>> : e1 \in written, e2 \in written} :
                       /\ es[1].Key # es[2].Key
                       /\ es[1].CreatedAt <= es[2].CreatedAt}

\* The cache file an earlier run left when it held these entries.
WrittenFile(entries) == save(entries, "cache.json", NoFile)

\* The same file with the created_at of its i-th entry damaged.
DamagedFile(entries, i) ==
    [WrittenFile(entries) EXCEPT !.entries[i].created_at = DamagedTime]

\* What the cache file was when the Cache was constructed.
FileKind(f) ==
    IF ~f.exists THEN "missing"
    ELSE IF ~f.valid THEN "garbage"
    ELSE IF \E i \in 1..Len(f.entries) : parseTime(f.entries[i].created_at).err THEN "damaged"
    ELSE "written"

\* ------------------------------------------------- parser (package diff)
\* A line is a sequence of characters, each a one-character string, so that
\* prefixes and the four regular expressions are matched as the code matches
\* them.
MaxLines == 4

\* Go's int, modelled with IntBits bits.
IntBits == 8

MaxInt == 2^(IntBits - 1) - 1

MinInt == -MaxInt - 1

\* n++ on an int.
Inc(n) == IF n = MaxInt THEN MinInt ELSE n + 1

\* bufio.MaxScanTokenSize: a line of this many bytes or more does not fit
\* the scanner's buffer.
MaxScanTokenSize == 64 * 1024

HasPrefix(line, prefix) == Len(line) >= Len(prefix) /\ SubSeq(line, 1, Len(prefix)) = prefix

HasSuffix(line, suffix) ==
    Len(line) >= Len(suffix) /\ SubSeq(line, Len(line) - Len(suffix) + 1, Len(line)) = suffix

\* line[n:]
Drop(line, n) == SubSeq(line, n + 1, Len(line))

\* strings.TrimSpace on the trailing text of a hunk header.
RECURSIVE trimSpaceLeft(_)
trimSpaceLeft(cs) == IF cs # <<>> /\ Head(cs) \in {" ", "\t"} THEN trimSpaceLeft(Tail(cs)) ELSE cs

RECURSIVE trimSpaceRight(_)
trimSpaceRight(cs) == IF cs # <<>> /\ cs[Len(cs)] \in {" ", "\t"}
                      THEN trimSpaceRight(SubSeq(cs, 1, Len(cs) - 1)) ELSE cs

trimSpace(cs) == trimSpaceRight(trimSpaceLeft(cs))

IsDigit(ch) == ch \in {"0", "1", "2", "3", "4", "5", "6", "7", "8", "9"}

DigitValue(ch) == CHOOSE n \in 0..9 : ToString(n) = ch

\* \d+ : the longest run of digits a text starts with.
RECURSIVE takeDigits(_)
takeDigits(cs) == IF cs # <<>> /\ IsDigit(Head(cs)) THEN <<Head(cs)>> \o takeDigits(Tail(cs))
                  ELSE <<>>

\* The value of a digit string, cut off above MaxInt.
RECURSIVE decimal(_, _)
decimal(digits, acc) ==
    IF digits = <<>> \/ acc > MaxInt THEN acc
    ELSE decimal(Tail(digits), acc * 10 + DigitValue(Head(digits)))

\* strconv.Atoi on a digit string: the value, or the largest int and a range
\* error.
Atoi(digits) ==
    IF decimal(digits, 0) > MaxInt THEN [n |-> MaxInt, err |-> "range"]
    ELSE [n |-> decimal(digits, 0), err |-> "nil"]

DiffGitA == <<"d", "i", "f", "f", " ", "-", "-", "g", "i", "t", " ", "a", "/">>

\* diffHeaderRe, ^diff --git a/(.+) b/(.+)$ : <<old, new>>, or <<>> for no
\* match.  The first group is greedy, so it ends at the last " b/" that
\* leaves both groups non-empty.
diffHeaderRe(line) ==
    LET rest == Drop(line, Len(DiffGitA))
        cuts == {i \in 2..(Len(rest) - 3) : SubSeq(rest, i, i + 2) = <<" ", "b", "/">>}
    IN IF HasPrefix(line, DiffGitA) /\ cuts # {}
       THEN LET i == CHOOSE i \in cuts : \A j \in cuts : j <= i
            IN <<SubSeq(rest, 1, i - 1), Drop(rest, i + 2)>>
       ELSE <<>>

\* ^<marker>(?:<side>)?(.+)$ : <<path>>, or <<>> for no match.
markerRe(line, marker, side) ==
    LET rest == Drop(line, Len(marker))
    IN IF ~HasPrefix(line, marker) \/ rest = <<>> THEN <<>>
       ELSE IF HasPrefix(rest, side) /\ Len(rest) > Len(side) THEN <<Drop(rest, Len(side))>>
       ELSE <<rest>>

\* oldFileRe, ^--- (?:a/)?(.+)$
oldFileRe(line) == markerRe(line, <<"-", "-", "-", " ">>, <<"a", "/">>)

\* newFileRe, ^\+\+\+ (?:b/)?(.+)$
newFileRe(line) == markerRe(line, <<"+", "+", "+", " ">>, <<"b", "/">>)

\* (\d+)(?:,(\d+))? at the start of a text: <<digits, count digits, rest>>,
\* or <<>> when the text does not start with a digit.
rangeRe(cs) ==
    LET start == takeDigits(cs)
        r == Drop(cs, Len(start))
        count == IF HasPrefix(r, <<",">>) THEN takeDigits(Drop(r, 1)) ELSE <<>>
    IN IF start = <<>> THEN <<>>
       ELSE IF count = <<>> THEN <<start, <<>>, r>>
       ELSE <<start, count, Drop(r, 1 + Len(count))>>

\* hunkHeaderRe, ^@@ -(\d+)(?:,(\d+))? \+(\d+)(?:,(\d+))? @@(.*)$ :
\* <<old start, old count, new start, new count, trailing text>>, with <<>>
\* for an absent count, or <<>> for no match.
hunkHeaderRe(line) ==
    LET old == rangeRe(Drop(line, 4))
        new == IF old # <<>> /\ HasPrefix(old[3], <<" ", "+">>)
               THEN rangeRe(Drop(old[3], 2)) ELSE <<>>
    IN IF HasPrefix(line, <<"@", "@", " ", "-">>) /\ new # <<>>
          /\ HasPrefix(new[3], <<" ", "@", "@">>)
       THEN <<old[1], old[2], new[1], new[2], Drop(new[3], 3)>>
       ELSE <<>>

\* detectLanguage, with the extension table cut down to ".go".
detectLanguage(p) == IF HasSuffix(p, <<".", "g", "o">>) THEN "go" ELSE "text"

DevNull == <<"/", "d", "e", "v", "/", "n", "u", "l", "l">>

\* A parser that takes the sentinel for a path.
isDevNullNever(p) == FALSE

\* matches[1] == "/dev/null"
isDevNull(p) == p = DevNull

\* A parser whose last case is a default case.
isContextLineAlways(line) == TRUE

\* The guard of the Context case: strings.HasPrefix(line, " ") || line == "".
isContextLine(line) == HasPrefix(line, <<" ">>) \/ line = <<>>

\* currentFile.Hunks = append(currentFile.Hunks, *currentHunk), when a hunk
\* is open.
flushHunk(cf, ch) == IF ch = <<>> THEN cf ELSE [cf EXCEPT !.Hunks = Append(@, ch[1])]

\* A parser that closes a file without its open hunk.
flushFileOnly(df, cf, ch) ==
    IF cf = <<>> THEN df ELSE [df EXCEPT !.Files = Append(@, cf[1])]

\* diff.Files = append(diff.Files, *currentFile), with the open hunk, when a
\* file is open.
flushFile(df, cf, ch) ==
    IF cf = <<>> THEN df ELSE [df EXCEPT !.Files = Append(@, flushHunk(cf[1], ch))]

\* The FileDiff a file header opens.
NewFileDiff(m) ==
    [OldPath |-> m[1], NewPath |-> m[2], IsNew |-> FALSE, IsDeleted |-> FALSE,
     IsRenamed |-> FALSE, IsBinary |-> FALSE, Language |-> detectLanguage(m[2]),
     Hunks |-> <<>>]

\* The Hunk a hunk header opens; the errors of Atoi are discarded.
NewHunk(m) ==
    [OldStart |-> Atoi(m[1]).n,
     OldCount |-> IF m[2] # <<>> THEN Atoi(m[2]).n ELSE 1,
     NewStart |-> Atoi(m[3]).n,
     NewCount |-> IF m[4] # <<>> THEN Atoi(m[4]).n ELSE 1,
     Lines |-> <<>>,
     Header |-> trimSpace(m[5])]

\* A hunk line of a hunk that is open: the state after the switch.  A line
\* that meets no case leaves the state as it is.
hunkLine(s, line) ==
    LET add(l) == [s.currentHunk[1] EXCEPT !.Lines = Append(@, l)]
    IN IF HasPrefix(line, <<"+">>)
       THEN [s EXCEPT !.currentHunk = <<add([Type |-> "Added", Content |-> Drop(line, 1),
                                             OldNum |-> 0, NewNum |-> s.newLineNum])>>,
                      !.newLineNum = Inc(@)]
       ELSE IF HasPrefix(line, <<"-">>)
       THEN [s EXCEPT !.currentHunk = <<add([Type |-> "Removed", Content |-> Drop(line, 1),
                                             OldNum |-> s.oldLineNum, NewNum |-> 0])>>,
                      !.oldLineNum = Inc(@)]
       ELSE IF isContextLine(line)
       THEN [s EXCEPT !.currentHunk =
                          <<add([Type |-> "Context",
                                 Content |-> IF HasPrefix(line, <<" ">>) THEN Drop(line, 1)
                                             ELSE line,
                                 OldNum |-> s.oldLineNum, NewNum |-> s.newLineNum])>>,
                      !.oldLineNum = Inc(@),
                      !.newLineNum = Inc(@)]
       ELSE s

\* The prefixes of the status lines.
NewFileMode == <<"n", "e", "w", " ", "f", "i", "l", "e", " ", "m", "o", "d", "e">>

DeletedFileMode == <<"d", "e", "l", "e", "t", "e", "d", " ", "f", "i", "l", "e", " ", "m", "o", "d", "e">>

RenameFrom == <<"r", "e", "n", "a", "m", "e", " ", "f", "r", "o", "m">>

RenameTo == <<"r", "e", "n", "a", "m", "e", " ", "t", "o">>

BinaryFiles == <<"B", "i", "n", "a", "r", "y", " ", "f", "i", "l", "e", "s">>

IndexLine == <<"i", "n", "d", "e", "x", " ">>

SimilarityIndex == <<"s", "i", "m", "i", "l", "a", "r", "i", "t", "y", " ", "i", "n", "d", "e", "x">>

\* One pass of the loop of Parse over a line the scanner returned: the
\* locals s = [diff, currentFile, currentHunk, oldLineNum, newLineNum] after
\* it.
parseLine(s, line) ==
    LET cf == s.currentFile[1]
    IN IF diffHeaderRe(line) # <<>>
       THEN [s EXCEPT !.diff = flushFile(@, s.currentFile, s.currentHunk),
                      !.currentFile = <<NewFileDiff(diffHeaderRe(line))>>,
                      !.currentHunk = <<>>]
       ELSE IF s.currentFile = <<>> THEN s
       ELSE IF HasPrefix(line, NewFileMode)
       THEN [s EXCEPT !.currentFile = <<[cf EXCEPT !.IsNew = TRUE]>>]
       ELSE IF HasPrefix(line, DeletedFileMode)
       THEN [s EXCEPT !.currentFile = <<[cf EXCEPT !.IsDeleted = TRUE]>>]
       ELSE IF HasPrefix(line, RenameFrom) \/ HasPrefix(line, RenameTo)
       THEN [s EXCEPT !.currentFile = <<[cf EXCEPT !.IsRenamed = TRUE]>>]
       ELSE IF HasPrefix(line, BinaryFiles)
       THEN [s EXCEPT !.currentFile = <<[cf EXCEPT !.IsBinary = TRUE]>>]
       ELSE IF HasPrefix(line, IndexLine) \/ HasPrefix(line, SimilarityIndex) THEN s
       ELSE IF oldFileRe(line) # <<>>
       THEN IF isDevNull(oldFileRe(line)[1]) THEN s
            ELSE [s EXCEPT !.currentFile = <<[cf EXCEPT !.OldPath = oldFileRe(line)[1]]>>]
       ELSE IF newFileRe(line) # <<>>
       THEN IF isDevNull(newFileRe(line)[1]) THEN s
            ELSE [s EXCEPT !.currentFile = <<[cf EXCEPT !.NewPath = newFileRe(line)[1]]>>]
       ELSE IF hunkHeaderRe(line) # <<>>
       THEN [s EXCEPT !.currentFile = <<flushHunk(cf, s.currentHunk)>>,
                      !.currentHunk = <<NewHunk(hunkHeaderRe(line))>>,
                      !.oldLineNum = NewHunk(hunkHeaderRe(line)).OldStart,
                      !.newLineNum = NewHunk(hunkHeaderRe(line)).NewStart]
       ELSE IF s.currentHunk # <<>> THEN hunkLine(s, line)
       ELSE s

\* A line of the input: its text, and the number of further characters that
\* follow the text on the same line.
InputLine(text) == [text |-> text, pad |-> 0]

\* A run of RunLength letters, carried as one element of a line: with the
\* shortest hunk header in front of it the line is the longest the scanner
\* returns.
Run == "a.."

ShortHunkHeader == <<"@", "@", " ", "-", "1", " ", "+", "1", " ", "@", "@", " ">>

RunLength == MaxScanTokenSize - Len(ShortHunkHeader) - 1

\* len of a text in bytes.
RECURSIVE Bytes(_)
Bytes(cs) == IF cs = <<>> THEN 0
             ELSE (IF Head(cs) = Run THEN RunLength ELSE 1) + Bytes(Tail(cs))

\* The length of the line in bytes.
LineLength(l) == Bytes(l.text) + l.pad

\* The lines the input is made of.
InputLines ==
    {InputLine(<<"d", "i", "f", "f", " ", "-", "-", "g", "i", "t", " ", "a", "/", "x", " ", "b", "/", "y">>),
     InputLine(NewFileMode),
     InputLine(DeletedFileMode),
     InputLine(RenameTo),
     InputLine(BinaryFiles),
     InputLine(IndexLine),
     InputLine(<<"-", "-", "-", " ", "a", "/", "z">>),
     InputLine(<<"-", "-", "-", " ", "/", "d", "e", "v", "/", "n", "u", "l", "l">>),
     InputLine(<<"+", "+", "+", " ", "b", "/", "w">>),
     InputLine(<<"+", "+", "+", " ", "/", "d", "e", "v", "/", "n", "u", "l", "l">>),
     InputLine(<<"@", "@", " ", "-", "1", ",", "2", " ", "+", "3", " ", "@", "@", " ", "f">>),
     InputLine(<<"@", "@", " ", "-", "9", "9", "9", " ", "+", "1", ",", "0", " ", "@", "@">>),
     InputLine(<<"+", "p">>),
     InputLine(<<"-", "q">>),
     InputLine(<<" ", "r">>),
     InputLine(<<>>),
     InputLine(<<"\\", " ", "N", "o", " ", "n", "e", "w", "l", "i", "n", "e">>),
     InputLine(<<"+", "p", "\r">>),
     InputLine(ShortHunkHeader \o <<Run>>),
     [text |-> <<"+">>, pad |-> MaxScanTokenSize]}

\* strconv.Itoa.
RECURSIVE Itoa(_)
Itoa(n) == IF n < 0 THEN <<"-">> \o Itoa(-n)
           ELSE IF n < 10 THEN <<ToString(n)>>
           ELSE Itoa(n \div 10) \o <<ToString(n % 10)>>

\* Diff.RawString on a Diff of Parse, as the text it writes: the lines of a
\* hunk, the hunks of a file, the files.
RECURSIVE writeLines(_)
writeLines(ls) ==
    IF ls = <<>> THEN <<>>
    ELSE LET l == Head(ls)
             mark == CASE l.Type = "Added" -> "+"
                       [] l.Type = "Removed" -> "-"
                       [] l.Type = "Context" -> " "
         IN <<mark>> \o l.Content \o <<"\n">> \o writeLines(Tail(ls))

RECURSIVE writeHunks(_)
writeHunks(hs) ==
    IF hs = <<>> THEN <<>>
    ELSE LET h == Head(hs)
         IN <<"@", "@", " ", "-">> \o Itoa(h.OldStart) \o <<",">> \o Itoa(h.OldCount)
                \o <<" ", "+">> \o Itoa(h.NewStart) \o <<",">> \o Itoa(h.NewCount)
                \o <<" ", "@", "@">>
                \o (IF h.Header # <<>> THEN <<" ">> \o h.Header ELSE <<>>) \o <<"\n">>
                \o writeLines(h.Lines) \o writeHunks(Tail(hs))

RECURSIVE writeFiles(_)
writeFiles(fs) ==
    IF fs = <<>> THEN <<>>
    ELSE LET f == Head(fs)
         IN DiffGitA \o f.OldPath \o <<" ", "b", "/">> \o f.NewPath \o <<"\n">>
                \o writeHunks(f.Hunks) \o writeFiles(Tail(fs))

RawStringText(df) == writeFiles(df.Files)

\* bufio.ScanLines: the lines of a text, cut at the newlines, cur being the
\* line under way; dropCR takes one carriage return off the end of a line.
RECURSIVE splitLines(_, _)
splitLines(cs, cur) ==
    IF cs = <<>> THEN (IF cur = <<>> THEN <<>> ELSE <<cur>>)
    ELSE IF Head(cs) = "\n" THEN <<cur>> \o splitLines(Tail(cs), <<>>)
    ELSE splitLines(Tail(cs), Append(cur, Head(cs)))

dropCR(line) == IF HasSuffix(line, <<"\r">>) THEN SubSeq(line, 1, Len(line) - 1) ELSE line

\* The loop of Parse over the lines of a text and the flush after it: the
\* Diff and the error Parse returns.
RECURSIVE parseLines(_, _)
parseLines(lines, s) ==
    IF lines = <<>>
    THEN [diff |-> flushFile(s.diff, s.currentFile, s.currentHunk), err |-> "nil"]
    ELSE IF Bytes(Head(lines)) >= MaxScanTokenSize
    THEN [diff |-> flushFile(s.diff, s.currentFile, s.currentHunk),
          err |-> "bufio.Scanner: token too long"]
    ELSE parseLines(Tail(lines), parseLine(s, dropCR(Head(lines))))

\* Parse(input).
Parse(input) ==
    parseLines(splitLines(input, <<>>),
               [diff |-> [Files |-> <<>>], currentFile |-> <<>>, currentHunk |-> <<>>,
                oldLineNum |-> 0, newLineNum |-> 0])

\* ------------------------------------------- configuration (package config)
\* The paths Load touches: configDir (~/.hnk), configDir + ".tmp" and
\* configDir/config.json.
Dir == "~/.hnk"

TmpDir == "~/.hnk.tmp"

NewPath == "~/.hnk/config.json"

Paths == {Dir, TmpDir, NewPath}

Parent(path) == IF path = NewPath THEN Dir ELSE "~"

Absent == [kind |-> "absent", data |-> <<>>]

Directory == [kind |-> "dir", data |-> <<>>]

RegularFile(data) == [kind |-> "file", data |-> <<data>>]

\* The contents a settings file can have: JSON objects with any of the
\* members theme, model and cache_size_mb, and a text that is no JSON.
Themes == {"light", "dark"}

Models == {"opus"}

CacheSizes == {0, 3}

SettingsDocs ==
    {[theme |-> t] : t \in Themes}
        \cup {[theme |-> t, model |-> m] : t \in Themes, m \in Models}
        \cup {[theme |-> t, cache_size_mb |-> c] : t \in Themes, c \in CacheSizes}
        \cup {[model |-> m, cache_size_mb |-> c] : m \in Models, c \in CacheSizes}

FileContents == {[valid |-> TRUE, doc |-> doc] : doc \in SettingsDocs}
                    \cup {[valid |-> FALSE, doc |-> [theme |-> "{"]]}

DefaultConfig == [Theme |-> "auto", Model |-> "sonnet", Style |-> "", CacheSizeMB |-> 5]

\* json.Unmarshal(data, cfg): the members present overwrite the fields of
\* cfg; a text that is no JSON leaves cfg as it is.
UnmarshalConfig(data, cfg) ==
    IF ~data.valid THEN cfg
    ELSE [Theme |-> FieldOr(data.doc, "theme", cfg.Theme),
          Model |-> FieldOr(data.doc, "model", cfg.Model),
          Style |-> FieldOr(data.doc, "style", cfg.Style),
          CacheSizeMB |-> FieldOr(data.doc, "cache_size_mb", cfg.CacheSizeMB)]

\* os.Stat(path) succeeds and reports no directory.
IsRegular(fs, path) == fs[path].kind = "file"

\* os.ReadFile.
ReadFile(fs, path) ==
    IF fs[path].kind = "file" THEN [err |-> FALSE, data |-> fs[path].data[1]]
    ELSE [err |-> TRUE, data |-> [valid |-> FALSE, doc |-> [theme |-> ""]]]

\* os.MkdirAll of Dir or TmpDir: creates the directory when nothing is
\* there, fails on a regular file.
MkdirAll(fs, path) == IF fs[path].kind = "absent" THEN [fs EXCEPT ![path] = Directory] ELSE fs

\* os.Rename(TmpDir, Dir): a directory replaces nothing but an empty
\* directory; over a regular file rename fails with ENOTDIR, a regular file
\* does not replace a directory.
Rename(fs, from, to) ==
    IF fs[from].kind = "absent" THEN fs
    ELSE IF fs[to].kind = "absent"
              \/ (fs[from].kind = "file" /\ fs[to].kind = "file")
              \/ (fs[from].kind = "dir" /\ fs[to].kind = "dir" /\ fs[NewPath].kind = "absent")
         THEN [fs EXCEPT ![to] = fs[from], ![from] = Absent]
         ELSE fs

\* os.WriteFile: fails when the parent is no directory or the path is one.
WriteFile(fs, path, data) ==
    IF fs[Parent(path)].kind = "dir" /\ fs[path].kind # "dir"
    THEN [fs EXCEPT ![path] = RegularFile(data)]
    ELSE fs

\* os.Remove: removes a regular file or an empty directory.
Remove(fs, path) ==
    IF fs[path].kind = "file" \/ (fs[path].kind = "dir" /\ (path = Dir => fs[NewPath].kind = "absent"))
    THEN [fs EXCEPT ![path] = Absent]
    ELSE fs

\* Load, the migration of a regular file at configDir.
migrate(fs) ==
    IF IsRegular(fs, Dir) /\ ~ReadFile(fs, Dir).err
    THEN LET data == ReadFile(fs, Dir).data
             fs1 == MkdirAll(fs, TmpDir)
             fs2 == Rename(fs1, TmpDir, Dir)
             fs3 == MkdirAll(fs2, Dir)
             fs4 == WriteFile(fs3, NewPath, data)
         IN Remove(fs4, Dir)
    ELSE fs

\* Load with a home directory: the file system it leaves and the Config it
\* returns.
LoadFrom(fs) ==
    LET fs5 == MkdirAll(migrate(fs), Dir)
        read == ReadFile(fs5, NewPath)
        cfg == UnmarshalConfig(read.data, DefaultConfig)
    IN [fs |-> fs5,
        cfg |-> IF read.err THEN DefaultConfig
                ELSE IF cfg.CacheSizeMB <= 0 THEN [cfg EXCEPT !.CacheSizeMB = 5]
                ELSE cfg]

\* ------------------------------------------------------------------ state
VARIABLES
    d,          \* the *diff.Diff passed to GroupDiff
    pc,         \* "idle", "describe", "analyze", "done" or "panic"
    run,        \* the number of the current invocation of GroupDiff on d
    aiErr,      \* err of the analyzer call: "unset" before it returns, then "nil" or the failure
    analysis,   \* analysis.Groups as returned by AnalyzeDiff
    desc,       \* desc as returned by GenerateDescription
    groups,     \* the []SemanticGroup GroupDiff returns
    retErr,     \* the error GroupDiff returns, "unset" before it returns
    calls,      \* analyzer calls issued by this invocation, per operation
    spinStarts, \* spinners started by this invocation
    spinning,   \* a spinner is running
    history     \* the results of the earlier invocations on d

\* The Cache of package cache and its file.
VARIABLES
    Entries,      \* c.Entries
    cachePath,    \* c.path, "" without a home directory
    maxSize,      \* c.maxSize
    file,         \* the cache file: [exists, entries]
    now,          \* the latest reading of the clock
    lastOp,       \* the latest operation on the Cache, with its arguments and results
    latest,       \* per key, the value of the latest Set ("none" before one)
    startedEmpty  \* construction loaded no entry

\* One call of diff.Parse.
VARIABLES
    scanned,      \* the lines the scanner has returned so far
    diff,         \* diff, the *Diff being built
    currentFile,  \* <<the FileDiff>> or <<>> for nil
    currentHunk,  \* <<the Hunk>> or <<>> for nil
    oldLineNum,
    newLineNum,
    parseErr,     \* the error Parse returns, "unset" before it returns
    ppc,          \* "off", "scan", "returned" or "reparsed"
    reparsed      \* <<what Parse returns for diff.RawString()>>, <<>> before that call

\* One call of config.Load and the files it touches.
VARIABLES
    home,         \* os.UserHomeDir succeeds
    disk,         \* per path of Paths, what is there: nothing, a directory, a regular file
    diskAtLoad,   \* disk when Load was called
    loaded,       \* <<the *Config Load returned>>, <<>> before it returns
    cpc           \* "off", "ready" or "returned"

\* One call of ai.BuildCatalog.
VARIABLES
    infos,        \* files, the []FileInfo passed
    built,        \* <<the *DiffCatalog returned>>, <<>> before the return
    kpc           \* "off", "ready" or "returned"

\* One Spinner as GroupDiff and singleHunkGroup use it: the calling
\* goroutine and the goroutine of Start.
VARIABLES
    spc,          \* the caller: "off", "new", "calling", "called", "waiting", "stopped", "returned"
    gpc,          \* the goroutine of Start: "none", "select", "lock", "write", "writing",
                  \* "unlock", "sleep", "clearLock", "clear", "clearing", "clearUnlock",
                  \* "close", "exited"
    stop,         \* s.stop: "open" or "closed"
    done,         \* s.done: "open" or "closed"
    mu,           \* s.mu: "" or the holder
    out,          \* the writes to s.out, in order
    frame,        \* i, the number of frames written
    callErr,      \* the error of the analyzer call, "unset" before it returns
    starts,       \* calls of spin.Start
    stops         \* calls of spin.Stop

\* The terminal program: the tui.Model bubbletea holds between messages.
VARIABLES
    tui,          \* the Model: groups, groupIndex, scrollOffset, width, height, lines
    tpc,          \* "off", "running", "quit" or "panic"
    lastMsg       \* the last message handled, with groupIndex and scrollOffset before it

grouperVars == <<d, pc, run, aiErr, analysis, desc, groups, retErr, calls, spinStarts, spinning,
                 history>>

cacheVars == <<Entries, cachePath, maxSize, file, now, lastOp, latest, startedEmpty>>

parserVars == <<scanned, diff, currentFile, currentHunk, oldLineNum, newLineNum, parseErr, ppc,
                reparsed>>

configVars == <<home, disk, diskAtLoad, loaded, cpc>>

catalogVars == <<infos, built, kpc>>

spinnerVars == <<spc, gpc, stop, done, mu, out, frame, callErr, starts, stops>>

tuiVars == <<tui, tpc, lastMsg>>

vars == <<grouperVars, cacheVars, parserVars, configVars, catalogVars, spinnerVars, tuiVars>>

NoCalls == [analyze |-> 0, describe |-> 0]

InitWith(diffs) ==
    /\ d \in diffs
    /\ pc = "idle"
    /\ run = 1
    /\ aiErr = "unset"
    /\ analysis = <<>>
    /\ desc = ""
    /\ groups = <<>>
    /\ retErr = "unset"
    /\ calls = NoCalls
    /\ spinStarts = 0
    /\ spinning = FALSE
    /\ history = <<>>

\* No Cache has been constructed.
CacheUnused ==
    /\ Entries = <<>>
    /\ cachePath = ""
    /\ maxSize = DefaultMaxSize
    /\ file = NoFile
    /\ now = 0
    /\ lastOp = [op |-> "none"]
    /\ latest = [k \in Keys |-> "none"]
    /\ startedEmpty = TRUE

\* Parse is not running.
ParserUnused ==
    /\ scanned = <<>>
    /\ diff = [Files |-> <<>>]
    /\ currentFile = <<>>
    /\ currentHunk = <<>>
    /\ oldLineNum = 0
    /\ newLineNum = 0
    /\ parseErr = "unset"
    /\ ppc = "off"
    /\ reparsed = <<>>

\* Load is not running.
ConfigUnused ==
    /\ home = TRUE
    /\ disk = [path \in Paths |-> Absent]
    /\ diskAtLoad = [path \in Paths |-> Absent]
    /\ loaded = <<>>
    /\ cpc = "off"

\* BuildCatalog is not running.
CatalogUnused ==
    /\ infos = <<>>
    /\ built = <<>>
    /\ kpc = "off"

\* No Spinner has been constructed.
SpinnerUnused ==
    /\ spc = "off"
    /\ gpc = "none"
    /\ stop = "open"
    /\ done = "open"
    /\ mu = ""
    /\ out = <<>>
    /\ frame = 0
    /\ callErr = "unset"
    /\ starts = 0
    /\ stops = 0

\* No terminal program is running.
TuiUnused ==
    /\ tui = [groups |-> <<>>, groupIndex |-> 0, scrollOffset |-> 0, width |-> 0, height |-> 0,
              lines |-> <<>>]
    /\ tpc = "off"
    /\ lastMsg = [msg |-> "none", groupIndex |-> 0, scrollOffset |-> 0]

\* GroupDiff is not running.
GrouperUnused ==
    /\ d = [Files |-> <<>>]
    /\ pc = "off"
    /\ run = 0
    /\ aiErr = "unset"
    /\ analysis = <<>>
    /\ desc = ""
    /\ groups = <<>>
    /\ retErr = "unset"
    /\ calls = NoCalls
    /\ spinStarts = 0
    /\ spinning = FALSE
    /\ history = <<>>

Init ==
    /\ InitWith(PlainDiffs)
    /\ CacheUnused
    /\ ParserUnused
    /\ ConfigUnused
    /\ CatalogUnused
    /\ SpinnerUnused
    /\ TuiUnused

InitFallback ==
    /\ InitWith(Diffs)
    /\ CacheUnused
    /\ ParserUnused
    /\ ConfigUnused
    /\ CatalogUnused
    /\ SpinnerUnused
    /\ TuiUnused

\* cache.New with a home directory: the Cache after load, given the budget
\* passed and the cache file.
NewCache(configured, f) ==
    /\ cachePath = "cache.json"
    /\ maxSize = New(configured)
    /\ file = f
    /\ Entries = load("cache.json", f)
    /\ now = 0
    /\ lastOp = [op |-> "New", from |-> FileKind(f)]
    /\ latest = [k \in Keys |-> "none"]
    /\ startedEmpty = (load("cache.json", f) = <<>>)

\* run of cmd/hnk: the cache is constructed and handed to grouper.New, then
\* GroupDiff is called.  The cache file is absent or holds one entry under
\* the hash of the Diff's raw text.
InitRun ==
    /\ InitWith(PlainDiffs)
    /\ ParserUnused
    /\ ConfigUnused
    /\ CatalogUnused
    /\ SpinnerUnused
    /\ TuiUnused
    /\ \E f \in {NoFile,
                 WrittenFile(<<[Key |-> HashKey(RawString(d)), Value |-> "cached",
                                Size |-> 32 + Len("cached"), CreatedAt |-> 0]>>)} :
          NewCache(0, f)

\* GroupDiff up to its return or its call of the analyzer (spin.Start
\* precedes the call).
GroupDiff ==
    /\ pc = "idle"
    /\ LET path == groupDiffPath(d) IN
       IF path = "empty"
       THEN /\ pc' = "done"
            /\ groups' = <<>>
            /\ retErr' = "nil"
            /\ UNCHANGED <<calls, spinStarts, spinning>>
       ELSE /\ pc' = IF path = "single" THEN "describe" ELSE "analyze"
            /\ spinStarts' = spinStarts + 1
            /\ spinning' = TRUE
            /\ calls' = IF path = "single" THEN [calls EXCEPT !.describe = @ + 1]
                        ELSE [calls EXCEPT !.analyze = @ + 1]
            /\ UNCHANGED <<groups, retErr>>
    /\ UNCHANGED <<d, run, aiErr, analysis, desc, history, cacheVars, parserVars, configVars, catalogVars, spinnerVars, tuiVars>>

\* singleHunkGroup from the return of GenerateDescription on: spin.Stop, the
\* substitute description, the title, the return.
GenerateDescriptionReturns ==
    /\ pc = "describe"
    /\ \E outcome \in FailedRuns \cup StdoutRuns(DescriptionTexts) :
         LET r == GenerateDescription(outcome)
             res == singleHunkGroup(d, r)
         IN /\ aiErr' = r.err
            /\ desc' = r.desc
            /\ spinning' = FALSE
            /\ IF res.panic
               THEN pc' = "panic" /\ UNCHANGED <<groups, retErr>>
               ELSE pc' = "done" /\ groups' = res.groups /\ retErr' = "nil"
    /\ UNCHANGED <<d, run, analysis, calls, spinStarts, history, cacheVars, parserVars, configVars, catalogVars, spinnerVars, tuiVars>>

\* A GroupDiff that issues the structured call a second time when the first
\* one failed.
AnalyzeDiffRetries(outcomes) ==
    /\ pc = "analyze"
    /\ \E outcome \in outcomes :
         LET r == AnalyzeDiff(outcome)
             res == groupDiffResult(d, r)
         IN IF r.err # "nil" /\ calls.analyze < 2
            THEN /\ calls' = [calls EXCEPT !.analyze = @ + 1]
                 /\ spinStarts' = spinStarts + 1
                 /\ UNCHANGED <<pc, aiErr, analysis, spinning, groups, retErr>>
            ELSE /\ aiErr' = r.err
                 /\ analysis' = r.Groups
                 /\ spinning' = FALSE
                 /\ IF res.panic
                    THEN pc' = "panic" /\ UNCHANGED <<groups, retErr>>
                    ELSE pc' = "done" /\ groups' = res.groups /\ retErr' = groupDiffError(r.err)
                 /\ UNCHANGED <<calls, spinStarts>>
    /\ UNCHANGED <<d, run, desc, history, cacheVars, parserVars, configVars, catalogVars, spinnerVars, tuiVars>>

\* GroupDiff from the return of AnalyzeDiff on: spin.Stop, then the fallback
\* grouping or buildGroups, the return.
AnalyzeDiffReturnsWith(outcomes) ==
    /\ pc = "analyze"
    /\ \E outcome \in outcomes :
         LET r == AnalyzeDiff(outcome)
             res == groupDiffResult(d, r)
         IN /\ aiErr' = r.err
            /\ analysis' = r.Groups
            /\ spinning' = FALSE
            /\ IF res.panic
               THEN pc' = "panic" /\ UNCHANGED <<groups, retErr>>
               ELSE pc' = "done" /\ groups' = res.groups /\ retErr' = groupDiffError(r.err)
    /\ UNCHANGED <<d, run, desc, calls, spinStarts, history, cacheVars, parserVars, configVars, catalogVars, spinnerVars, tuiVars>>

AnalyzeDiffReturns == AnalyzeDiffReturnsWith(FailedRuns \cup StdoutRuns(ProseTexts \cup JsonTexts))

\* The same with an analyzer whose structured call never yields JSON.
AnalyzeDiffFails == AnalyzeDiffReturnsWith(FailedRuns \cup StdoutRuns(ProseTexts))

\* The caller invokes GroupDiff on the same Diff once more.
GroupDiffAgain ==
    /\ pc = "done"
    /\ run < MaxRuns
    /\ history' = Append(history, [groups |-> groups, aiErr |-> aiErr, retErr |-> retErr])
    /\ run' = run + 1
    /\ pc' = "idle"
    /\ aiErr' = "unset"
    /\ analysis' = <<>>
    /\ desc' = ""
    /\ groups' = <<>>
    /\ retErr' = "unset"
    /\ calls' = NoCalls
    /\ spinStarts' = 0
    /\ spinning' = FALSE
    /\ UNCHANGED <<d, cacheVars, parserVars, configVars, catalogVars, spinnerVars, tuiVars>>

Next == GroupDiff \/ GenerateDescriptionReturns \/ AnalyzeDiffReturns

Spec == Init /\ [][Next]_vars

NextFallback == GroupDiff \/ GenerateDescriptionReturns \/ AnalyzeDiffFails \/ GroupDiffAgain

SpecFallback == InitFallback /\ [][NextFallback]_vars

\* One invocation as cmd/hnk makes it, with the cache it constructs.
SpecRun == InitRun /\ [][Next]_vars

\* --------------------------------------------------- cache operations
Range(seq) == {seq[i] : i \in 1..Len(seq)}

\* Cache.Set(key, value) with its evict and save; t is the reading of
\* time.Now, not earlier than the latest reading.
SetWith(values) ==
    \E key \in Keys, value \in values, t \in {now, now + 1} \cap Times :
        \E kept \in evict(Append(removeKey(Entries, key), Entry(key, value, t)), maxSize) :
            /\ Entries' = kept
            /\ file' = save(kept, cachePath, file)
            /\ now' = t
            /\ lastOp' = [op |-> "Set", key |-> key, value |-> value, t |-> t,
                          newest |-> \A e \in Range(removeKey(Entries, key)) : e.CreatedAt < t]
            /\ latest' = [latest EXCEPT ![key] = value]
            /\ UNCHANGED <<cachePath, maxSize, startedEmpty, grouperVars, parserVars, configVars, catalogVars, spinnerVars, tuiVars>>

Set == SetWith(Values)

\* Cache.Get(key).  The record of the call keeps the operation it follows.
CacheGet ==
    \E key \in Keys :
        /\ lastOp' = [op |-> "Get", key |-> key,
                      value |-> Get(Entries, key).value, ok |-> Get(Entries, key).ok,
                      after |-> IF lastOp.op = "Set"
                                THEN [op |-> "Set", key |-> lastOp.key, value |-> lastOp.value,
                                      newest |-> lastOp.newest]
                                ELSE [op |-> lastOp.op]]
        /\ UNCHANGED <<Entries, cachePath, maxSize, file, now, latest, startedEmpty,
                       grouperVars, parserVars, configVars, catalogVars, spinnerVars, tuiVars>>

\* Cache.Clear with its save.
Clear ==
    /\ Entries' = <<>>
    /\ file' = save(<<>>, cachePath, file)
    /\ lastOp' = [op |-> "Clear"]
    /\ UNCHANGED <<cachePath, maxSize, now, latest, startedEmpty, grouperVars, parserVars, configVars, catalogVars, spinnerVars, tuiVars>>

\* Cache.TotalSize().
CacheTotalSize ==
    /\ lastOp' = [op |-> "TotalSize", total |-> TotalSize(Entries)]
    /\ UNCHANGED <<Entries, cachePath, maxSize, file, now, latest, startedEmpty,
                   grouperVars, parserVars, configVars, catalogVars, spinnerVars, tuiVars>>

\* cache.New: with a home directory the cache file is absent or was written
\* by an earlier run; without one there is no path and nothing is loaded.
InitCache ==
    /\ GrouperUnused
    /\ ParserUnused
    /\ ConfigUnused
    /\ CatalogUnused
    /\ SpinnerUnused
    /\ TuiUnused
    /\ \E configured \in ConfiguredSizes :
          \/ \E entries \in LoadedCaches :
                 NewCache(configured, WrittenFile(entries))
          \/ NewCache(configured, NoFile)
          \/ /\ cachePath = ""
             /\ maxSize = New(configured)
             /\ file = NoFile
             /\ Entries = <<>>
             /\ now = 0
             /\ lastOp = [op |-> "New", from |-> "missing"]
             /\ latest = [k \in Keys |-> "none"]
             /\ startedEmpty = TRUE

NextCache == Set \/ CacheGet \/ Clear \/ CacheTotalSize

SpecCache == InitCache /\ [][NextCache]_vars

\* ------------------------------------------------------ the cache and its file
\* The values stored in the runs on persistence: one of them is not valid
\* UTF-8.
StoredValues == {"x", BadByte}

StoreSet == SetWith(StoredValues)

\* A later run constructs its Cache with cache.New over the file the
\* mutations of this one have left.  The record of the call keeps the
\* entries the Cache held before.
Reopen ==
    /\ lastOp.op \in {"Set", "Clear"}
    /\ Entries' = load(cachePath, file)
    /\ lastOp' = [op |-> "New", from |-> IF cachePath = "" THEN "missing" ELSE FileKind(file),
                  held |-> Entries]
    /\ latest' = [k \in Keys |-> "none"]
    /\ startedEmpty' = (load(cachePath, file) = <<>>)
    /\ UNCHANGED <<cachePath, maxSize, file, now, grouperVars, parserVars, configVars, catalogVars, spinnerVars, tuiVars>>

\* cache.New over a cache file that is missing, is no JSON text, was written
\* by an earlier run, or was written by one and damaged since.
InitStore ==
    /\ GrouperUnused
    /\ ParserUnused
    /\ ConfigUnused
    /\ CatalogUnused
    /\ SpinnerUnused
    /\ TuiUnused
    /\ \E configured \in ConfiguredSizes :
          \/ NewCache(configured, NoFile)
          \/ NewCache(configured, GarbageFile)
          \/ \E entries \in LoadedCaches :
                 \/ NewCache(configured, WrittenFile(entries))
                 \/ \E i \in 1..Len(entries) : NewCache(configured, DamagedFile(entries, i))

NextStore == StoreSet \/ Clear \/ Reopen

SpecStore == InitStore /\ [][NextStore]_vars

\* ----------------------------------------------------------- config.Load
\* The states of the three paths Load can find: configDir is missing, a
\* regular file (the settings file of the README) or a directory with or
\* without config.json; configDir + ".tmp" is missing, a directory or a
\* regular file.
Disks ==
    {[path \in Paths |-> CASE path = Dir -> dir [] path = TmpDir -> tmp [] path = NewPath -> new] :
        dir \in {Absent, Directory} \cup {RegularFile(c) : c \in FileContents},
        tmp \in {Absent, Directory, RegularFile([valid |-> FALSE, doc |-> [theme |-> "{"]])},
        new \in {Absent} \cup {RegularFile(c) : c \in FileContents}}

InitConfig ==
    /\ GrouperUnused
    /\ CacheUnused
    /\ ParserUnused
    /\ CatalogUnused
    /\ SpinnerUnused
    /\ TuiUnused
    /\ home \in BOOLEAN
    /\ disk \in {fs \in Disks : fs[NewPath].kind # "absent" => fs[Dir].kind = "dir"}
    /\ diskAtLoad = disk
    /\ loaded = <<>>
    /\ cpc = "ready"

\* config.Load, from its call to its return.
Load ==
    /\ cpc = "ready"
    /\ cpc' = "returned"
    /\ IF home
       THEN /\ disk' = LoadFrom(disk).fs
            /\ loaded' = <<LoadFrom(disk).cfg>>
       ELSE /\ disk' = disk
            /\ loaded' = <<DefaultConfig>>
    /\ UNCHANGED <<home, diskAtLoad, grouperVars, cacheVars, parserVars, catalogVars,
                   spinnerVars, tuiVars>>

NextConfig == Load

SpecConfig == InitConfig /\ [][NextConfig]_vars

\* --------------------------------------------------------- ai.BuildCatalog
InitCatalog ==
    /\ GrouperUnused
    /\ CacheUnused
    /\ ParserUnused
    /\ ConfigUnused
    /\ SpinnerUnused
    /\ TuiUnused
    /\ infos \in FileInfoSeqs(MaxFiles)
    /\ built = <<>>
    /\ kpc = "ready"

\* BuildCatalog(files), from its call to its return.
BuildCatalogReturns ==
    /\ kpc = "ready"
    /\ kpc' = "returned"
    /\ built' = <<BuildCatalog(infos)>>
    /\ UNCHANGED <<infos, grouperVars, cacheVars, parserVars, configVars, spinnerVars, tuiVars>>

NextCatalog == BuildCatalogReturns

SpecCatalog == InitCatalog /\ [][NextCatalog]_vars

\* ------------------------------------------------------------ diff.Parse
\* The locals of Parse.
Locals == [diff |-> diff, currentFile |-> currentFile, currentHunk |-> currentHunk,
           oldLineNum |-> oldLineNum, newLineNum |-> newLineNum]

\* Parse is entered: the locals before the loop.
InitParse ==
    /\ GrouperUnused
    /\ CacheUnused
    /\ ConfigUnused
    /\ CatalogUnused
    /\ SpinnerUnused
    /\ TuiUnused
    /\ scanned = <<>>
    /\ diff = [Files |-> <<>>]
    /\ currentFile = <<>>
    /\ currentHunk = <<>>
    /\ oldLineNum = 0
    /\ newLineNum = 0
    /\ parseErr = "unset"
    /\ ppc = "scan"
    /\ reparsed = <<>>

\* scanner.Scan returns a line, and the body of the loop runs on it.
ScanLine ==
    /\ ppc = "scan"
    /\ Len(scanned) < MaxLines
    /\ \E l \in InputLines :
         /\ LineLength(l) < MaxScanTokenSize
         /\ scanned' = Append(scanned, l)
         /\ diff' = parseLine(Locals, l.text).diff
         /\ currentFile' = parseLine(Locals, l.text).currentFile
         /\ currentHunk' = parseLine(Locals, l.text).currentHunk
         /\ oldLineNum' = parseLine(Locals, l.text).oldLineNum
         /\ newLineNum' = parseLine(Locals, l.text).newLineNum
    /\ UNCHANGED <<parseErr, ppc, reparsed, grouperVars, cacheVars, configVars, catalogVars, spinnerVars, tuiVars>>

\* The next line does not fit the scanner's buffer: scanner.Scan returns
\* false, the open hunk and file are flushed and Parse returns the Diff with
\* scanner.Err().
ScanTooLong ==
    /\ ppc = "scan"
    /\ Len(scanned) < MaxLines
    /\ \E l \in InputLines :
         /\ LineLength(l) >= MaxScanTokenSize
         /\ scanned' = Append(scanned, l)
    /\ diff' = flushFile(diff, currentFile, currentHunk)
    /\ parseErr' = "bufio.Scanner: token too long"
    /\ ppc' = "returned"
    /\ UNCHANGED <<currentFile, currentHunk, oldLineNum, newLineNum, reparsed, grouperVars, cacheVars, configVars, catalogVars, spinnerVars, tuiVars>>

\* The input ends: scanner.Scan returns false, the open hunk and file are
\* flushed and Parse returns the Diff with a nil error.
EndOfInput ==
    /\ ppc = "scan"
    /\ diff' = flushFile(diff, currentFile, currentHunk)
    /\ parseErr' = "nil"
    /\ ppc' = "returned"
    /\ UNCHANGED <<scanned, currentFile, currentHunk, oldLineNum, newLineNum, reparsed,
                   grouperVars, cacheVars, configVars, catalogVars, spinnerVars, tuiVars>>

NextParse == ScanLine \/ ScanTooLong \/ EndOfInput

SpecParse == InitParse /\ [][NextParse]_vars

\* The Diff Parse returned is written out with RawString and the text is
\* parsed again.
Reparse ==
    /\ ppc = "returned"
    /\ reparsed' = <<Parse(RawStringText(diff))>>
    /\ ppc' = "reparsed"
    /\ UNCHANGED <<scanned, diff, currentFile, currentHunk, oldLineNum, newLineNum, parseErr,
                   grouperVars, cacheVars, configVars, catalogVars, spinnerVars, tuiVars>>

NextRoundTrip == NextParse \/ Reparse

SpecRoundTrip == InitParse /\ [][NextRoundTrip]_vars

\* ------------------------------------------------- spinner (package spinner)
\* The frames the goroutine writes are bounded.
MaxFrames == 2

\* A receive that does not wait for the channel to be closed.
ReceivedAlways(ch) == TRUE

\* <-ch on a channel nothing is ever sent on: it proceeds once the channel
\* is closed.
Received(ch) == ch = "closed"

\* A write of fmt.Fprintf to s.out, as its beginning and its end.
WriteBegin(kind) == [kind |-> kind, part |-> "begin"]

WriteEnd(kind) == [kind |-> kind, part |-> "end"]

\* spin := spinner.New(g.spinnerOut, "Analyzing changes...") has returned.
InitSpinner ==
    /\ GrouperUnused
    /\ CacheUnused
    /\ ParserUnused
    /\ ConfigUnused
    /\ CatalogUnused
    /\ TuiUnused
    /\ spc = "new"
    /\ gpc = "none"
    /\ stop = "open"
    /\ done = "open"
    /\ mu = ""
    /\ out = <<>>
    /\ frame = 0
    /\ callErr = "unset"
    /\ starts = 0
    /\ stops = 0

\* spin.Start(): the goroutine is created with i = 0, and the caller goes on
\* to the analyzer call.
Start ==
    /\ spc = "new"
    /\ spc' = "calling"
    /\ gpc' = "select"
    /\ starts' = starts + 1
    /\ UNCHANGED <<stop, done, mu, out, frame, callErr, stops, grouperVars, cacheVars, parserVars, configVars, catalogVars, tuiVars>>

\* g.ai.AnalyzeDiff or g.ai.GenerateDescription returns, with or without an
\* error.
CallReturns ==
    /\ spc = "calling"
    /\ \E err \in {"nil", "exit"} : callErr' = err
    /\ spc' = "called"
    /\ UNCHANGED <<gpc, stop, done, mu, out, frame, starts, stops, grouperVars, cacheVars, parserVars, configVars, catalogVars, tuiVars>>

\* spin.Stop(), close(s.stop).
StopCloses ==
    /\ spc = "called"
    /\ stop' = "closed"
    /\ stops' = stops + 1
    /\ spc' = "waiting"
    /\ UNCHANGED <<gpc, done, mu, out, frame, callErr, starts, grouperVars, cacheVars, parserVars, configVars, catalogVars, tuiVars>>

\* spin.Stop(), <-s.done, and the return of Stop.
StopReturns ==
    /\ spc = "waiting"
    /\ Received(done)
    /\ spc' = "stopped"
    /\ UNCHANGED <<gpc, stop, done, mu, out, frame, callErr, starts, stops, grouperVars, cacheVars, parserVars, configVars, catalogVars, tuiVars>>

\* GroupDiff, or singleHunkGroup, goes on to its return.
GroupDiffReturns ==
    /\ spc = "stopped"
    /\ spc' = "returned"
    /\ UNCHANGED <<gpc, stop, done, mu, out, frame, callErr, starts, stops, grouperVars, cacheVars, parserVars, configVars, catalogVars, tuiVars>>

\* The select of the goroutine: the stop case when s.stop is closed, the
\* default case otherwise.
Select ==
    /\ gpc = "select"
    /\ IF Received(stop) THEN gpc' = "clearLock"
       ELSE frame < MaxFrames /\ gpc' = "lock"
    /\ UNCHANGED <<spc, stop, done, mu, out, frame, callErr, starts, stops, grouperVars, cacheVars, parserVars, configVars, catalogVars, tuiVars>>

\* s.mu.Lock(), in the default case and in clear.
Lock ==
    /\ gpc \in {"lock", "clearLock"}
    /\ mu = ""
    /\ mu' = "goroutine"
    /\ gpc' = IF gpc = "lock" THEN "write" ELSE "clear"
    /\ UNCHANGED <<spc, stop, done, out, frame, callErr, starts, stops, grouperVars, cacheVars, parserVars, configVars, catalogVars, tuiVars>>

\* fmt.Fprintf of a frame begins, ends.
FrameBegins ==
    /\ gpc = "write"
    /\ out' = Append(out, WriteBegin("frame"))
    /\ gpc' = "writing"
    /\ UNCHANGED <<spc, stop, done, mu, frame, callErr, starts, stops, grouperVars, cacheVars, parserVars, configVars, catalogVars, tuiVars>>

FrameEnds ==
    /\ gpc = "writing"
    /\ out' = Append(out, WriteEnd("frame"))
    /\ gpc' = "unlock"
    /\ UNCHANGED <<spc, stop, done, mu, frame, callErr, starts, stops, grouperVars, cacheVars, parserVars, configVars, catalogVars, tuiVars>>

\* s.mu.Unlock() and i++ after a frame; the goroutine sleeps.
Unlock ==
    /\ gpc = "unlock"
    /\ mu' = ""
    /\ frame' = frame + 1
    /\ gpc' = "sleep"
    /\ UNCHANGED <<spc, stop, done, out, callErr, starts, stops, grouperVars, cacheVars, parserVars, configVars, catalogVars, tuiVars>>

\* time.Sleep returns.
Wake ==
    /\ gpc = "sleep"
    /\ gpc' = "select"
    /\ UNCHANGED <<spc, stop, done, mu, out, frame, callErr, starts, stops, grouperVars, cacheVars, parserVars, configVars, catalogVars, tuiVars>>

\* fmt.Fprintf of the clearing sequence begins, ends.
ClearBegins ==
    /\ gpc = "clear"
    /\ out' = Append(out, WriteBegin("clear"))
    /\ gpc' = "clearing"
    /\ UNCHANGED <<spc, stop, done, mu, frame, callErr, starts, stops, grouperVars, cacheVars, parserVars, configVars, catalogVars, tuiVars>>

ClearEnds ==
    /\ gpc = "clearing"
    /\ out' = Append(out, WriteEnd("clear"))
    /\ gpc' = "clearUnlock"
    /\ UNCHANGED <<spc, stop, done, mu, frame, callErr, starts, stops, grouperVars, cacheVars, parserVars, configVars, catalogVars, tuiVars>>

\* The deferred s.mu.Unlock() of clear, and the return of the goroutine's
\* function.
ClearUnlock ==
    /\ gpc = "clearUnlock"
    /\ mu' = ""
    /\ gpc' = "close"
    /\ UNCHANGED <<spc, stop, done, out, frame, callErr, starts, stops, grouperVars, cacheVars, parserVars, configVars, catalogVars, tuiVars>>

\* The deferred close(s.done); the goroutine ends.
CloseDone ==
    /\ gpc = "close"
    /\ done' = "closed"
    /\ gpc' = "exited"
    /\ UNCHANGED <<spc, stop, mu, out, frame, callErr, starts, stops, grouperVars, cacheVars, parserVars, configVars, catalogVars, tuiVars>>

NextSpinner ==
    \/ Start
    \/ CallReturns
    \/ StopCloses
    \/ StopReturns
    \/ GroupDiffReturns
    \/ Select
    \/ Lock
    \/ FrameBegins
    \/ FrameEnds
    \/ Unlock
    \/ Wake
    \/ ClearBegins
    \/ ClearEnds
    \/ ClearUnlock
    \/ CloseDone

SpecSpinner == InitSpinner /\ [][NextSpinner]_vars

\* ------------------------------------------------ terminal program (package tui)
\* The groups handed to tui.New: at most MaxShown of them, each with at most
\* MaxShownHunks hunks, a hunk having no line or one line of each kind.
MaxShown == 2

MaxShownHunks == 2

ShownBodies == {<<>>, <<"Added", "Removed", "Context">>}

ShownGroups ==
    {[Title |-> "T", Description |-> "D", Hunks |-> hs] :
        hs \in UNION {[1..n -> {[Lines |-> b] : b \in ShownBodies}] : n \in 1..MaxShownHunks}}

ShownLists == UNION {[1..n -> ShownGroups] : n \in 0..MaxShown}

\* The sizes a tea.WindowSizeMsg reports.
Widths == {40, 80}

Heights == {0, 2, 4, 24}

\* msg.String() of a tea.KeyMsg: the keys Update has a case for, and one
\* it has none for.
QuitKeys == {"q", "ctrl+c", "esc"}

KeyNames == QuitKeys \cup {"left", "h", "right", "l", "up", "k", "down", "j", " ", "pgdown",
                           "pgup", "g", "G", "x"}

\* Model.contentHeight.
contentHeight(m) == IF m.height < 2 THEN 1 ELSE m.height - 1

\* Model.renderLine, as the mark the line starts with.
renderLine(kind) == CASE kind = "Added" -> "+"
                      [] kind = "Removed" -> "-"
                      [] kind = "Context" -> " "

\* Model.hunkLines: the hunk header and one line per line of the hunk.
hunkLines(h) == <<"@@">> \o [i \in 1..Len(h.Lines) |-> renderLine(h.Lines[i])]

\* The loop of rebuildLines over group.Hunks: the file header, the lines of
\* the hunk and an empty line, per hunk.
RECURSIVE groupLines(_)
groupLines(hs) ==
    IF hs = <<>> THEN <<>>
    ELSE <<"file">> \o hunkLines(Head(hs)) \o <<"">> \o groupLines(Tail(hs))

\* Model.rebuildLines: [panic, m].
rebuildLines(m) ==
    IF Len(m.groups) = 0
    THEN [panic |-> FALSE, m |-> [m EXCEPT !.lines = <<"No changes to display">>]]
    ELSE IF ~InRange(m.groups, m.groupIndex) THEN [panic |-> TRUE, m |-> m]
    ELSE LET group == At(m.groups, m.groupIndex)
         IN [panic |-> FALSE,
             m |-> [m EXCEPT !.lines = <<group.Title, group.Description, "">>
                                           \o groupLines(group.Hunks)]]

\* tui.New.
NewModel(shown) ==
    rebuildLines([groups |-> shown, groupIndex |-> 0, scrollOffset |-> 0, width |-> 80,
                  height |-> 24, lines |-> <<>>]).m

\* maxScroll of the cases "down", "pgdown" and "G".
maxScroll(m) == Max(Len(m.lines) - contentHeight(m), 0)

\* A guard of the case "right" that lets the index reach len(m.groups).
canMoveRightToEnd(m) == m.groupIndex < Len(m.groups)

\* The guards of the cases "left" and "right".
canMoveLeft(m) == m.groupIndex > 0

canMoveRight(m) == m.groupIndex < Len(m.groups) - 1

\* Model.Update on a tea.KeyMsg: [panic, quit, m].
UpdateKey(m, key) ==
    LET same == [panic |-> FALSE, quit |-> FALSE, m |-> m]
        to(offset) == [same EXCEPT !.m = [m EXCEPT !.scrollOffset = offset]]
        move(index) == LET r == rebuildLines([m EXCEPT !.groupIndex = index,
                                                       !.scrollOffset = 0])
                       IN [panic |-> r.panic, quit |-> FALSE, m |-> r.m]
    IN CASE key \in QuitKeys -> [same EXCEPT !.quit = TRUE]
         [] key \in {"left", "h"} -> IF canMoveLeft(m) THEN move(m.groupIndex - 1) ELSE same
         [] key \in {"right", "l"} -> IF canMoveRight(m) THEN move(m.groupIndex + 1) ELSE same
         [] key \in {"up", "k"} -> IF m.scrollOffset > 0 THEN to(m.scrollOffset - 1) ELSE same
         [] key \in {"down", "j"} ->
                IF m.scrollOffset < maxScroll(m) THEN to(m.scrollOffset + 1) ELSE same
         [] key \in {" ", "pgdown"} ->
                IF m.scrollOffset + contentHeight(m) > maxScroll(m) THEN to(maxScroll(m))
                ELSE to(m.scrollOffset + contentHeight(m))
         [] key = "pgup" ->
                IF m.scrollOffset - contentHeight(m) < 0 THEN to(0)
                ELSE to(m.scrollOffset - contentHeight(m))
         [] key = "g" -> to(0)
         [] key = "G" -> to(maxScroll(m))
         [] OTHER -> same

\* Model.Update on a tea.WindowSizeMsg.
UpdateSize(m, w, h) == [m EXCEPT !.width = w, !.height = h]

\* Model.View: whether the slice expression panics, the lines shown, and
\* the percentage of the status line when it has one.
View(m) ==
    LET end == IF m.scrollOffset + contentHeight(m) > Len(m.lines) THEN Len(m.lines)
               ELSE m.scrollOffset + contentHeight(m)
        none == [panic |-> FALSE, visibleLines |-> <<>>, progress |-> FALSE, pct |-> 0]
    IN IF Len(m.groups) = 0 THEN none
       ELSE IF ~(0 <= m.scrollOffset /\ m.scrollOffset <= end /\ end <= Len(m.lines))
       THEN [none EXCEPT !.panic = TRUE]
       ELSE [panic |-> FALSE,
             visibleLines |-> SubSeq(m.lines, m.scrollOffset + 1, end),
             progress |-> Len(m.lines) > contentHeight(m),
             pct |-> IF Len(m.lines) > contentHeight(m) /\ Len(m.lines) - contentHeight(m) > 0
                     THEN (m.scrollOffset * 100) \div (Len(m.lines) - contentHeight(m))
                     ELSE 0]

\* tui.Run: the program starts with the Model of New.
InitTui ==
    /\ GrouperUnused
    /\ CacheUnused
    /\ ParserUnused
    /\ ConfigUnused
    /\ CatalogUnused
    /\ SpinnerUnused
    /\ \E shown \in ShownLists : tui = NewModel(shown)
    /\ tpc = "running"
    /\ lastMsg = [msg |-> "none", groupIndex |-> 0, scrollOffset |-> 0]

\* A key arrives: Update, and View on the Model it returns.
KeyMsg ==
    /\ tpc = "running"
    /\ \E key \in KeyNames :
         LET r == UpdateKey(tui, key) IN
         /\ lastMsg' = [msg |-> key, groupIndex |-> tui.groupIndex,
                        scrollOffset |-> tui.scrollOffset]
         /\ IF r.panic THEN tui' = tui /\ tpc' = "panic"
            ELSE /\ tui' = r.m
                 /\ tpc' = IF View(r.m).panic THEN "panic"
                           ELSE IF r.quit THEN "quit" ELSE "running"
    /\ UNCHANGED <<grouperVars, cacheVars, parserVars, configVars, catalogVars, spinnerVars>>

\* The terminal reports its size: Update, and View on the Model it returns.
WindowSizeMsg ==
    /\ tpc = "running"
    /\ \E w \in Widths, h \in Heights :
         /\ tui' = UpdateSize(tui, w, h)
         /\ tpc' = IF View(UpdateSize(tui, w, h)).panic THEN "panic" ELSE "running"
    /\ lastMsg' = [msg |-> "size", groupIndex |-> tui.groupIndex,
                   scrollOffset |-> tui.scrollOffset]
    /\ UNCHANGED <<grouperVars, cacheVars, parserVars, configVars, catalogVars, spinnerVars>>

NextTui == KeyMsg \/ WindowSizeMsg

SpecTui == InitTui /\ [][NextTui]_vars

\* ------------------------------------------------------------- properties
Done == pc = "done"

\* The structured grouping call was issued and returned groups.
Reconciled == Done /\ calls.analyze = 1 /\ aiErr = "nil"

\* Every (file, hunk) pair of the Diff.
HunkRefs == UNION {{<<i, j>> : j \in 0..(Len(At(d.Files, i).Hunks) - 1)} :
                       i \in 0..(Len(d.Files) - 1)}

\* The positions <<group, place>> of the returned references, and the pair
\* a position refers to.
Positions == UNION {{<<g, k>> : k \in 1..Len(groups[g].Hunks)} : g \in 1..Len(groups)}

RefAt(pos) == <<groups[pos[1]].Hunks[pos[2]].File, groups[pos[1]].Hunks[pos[2]].Hunk>>

Occurrences(p) == {pos \in Positions : RefAt(pos) = p}

RefsOf(g) == {RefAt(<<g, k>>) : k \in 1..Len(groups[g].Hunks)}

\* The valid pairs a proposed group names: a file index in range with a
\* listed hunk index in range, or with every hunk of the file when the
\* group has no hunk list at that position.
NamedBy(ag) ==
    {p \in HunkRefs :
        \E i \in 1..Len(ag.FileIndices) :
            /\ ag.FileIndices[i] = p[1]
            /\ \/ i > Len(ag.HunkIndices)
               \/ \E j \in 1..Len(ag.HunkIndices[i]) : ag.HunkIndices[i][j] = p[2]}

Named == UNION {NamedBy(analysis[k]) : k \in 1..Len(analysis)}

\* The pairs the k-th proposed group is the first to name.
FirstNamedBy(k) == NamedBy(analysis[k]) \ UNION {NamedBy(analysis[j]) : j \in 1..(k - 1)}

\* The proposed groups that are the first to name some pair, and the place
\* of such a group among them.
Kept == {k \in 1..Len(analysis) : FirstNamedBy(k) # {}}

Rank(k) == Cardinality({j \in Kept : j <= k})

RefLess(p, q) == p[1] < q[1] \/ (p[1] = q[1] /\ p[2] < q[2])

\* C1: when GroupDiff has returned, whatever the analyzer did, every returned
\* reference is a hunk of the Diff and every hunk of the Diff is referenced
\* exactly once over all groups.
C1_ExactlyOnce ==
    Done => /\ \A pos \in Positions : RefAt(pos) \in HunkRefs
            /\ \A p \in HunkRefs : Cardinality(Occurrences(p)) = 1

\* A response of two proposed groups naming a common pair was reconciled and
\* left hunks to the sweep.
C1_Witness ==
    /\ Reconciled
    /\ Len(analysis) = 2
    /\ NamedBy(analysis[1]) \cap NamedBy(analysis[2]) # {}
    /\ HunkRefs \ Named # {}

\* C2: GroupDiff never panics, and when it has returned its error is nil,
\* whatever the analyzer call ended in.
C2_NeverFails == pc # "panic" /\ (Done => retErr = "nil")

\* GroupDiff has returned after the analyzer call failed on a cancelled context.
C2_Witness == Done /\ aiErr = "cancelled" /\ Len(groups) > 1

\* C3: after a reconciliation every pair named by the response is returned
\* once only, in the group made from the first proposed group that names it.
C3_FirstAssignmentWins ==
    Reconciled =>
        \A k \in 1..Len(analysis) : \A p \in FirstNamedBy(k) :
            /\ Cardinality(Occurrences(p)) = 1
            /\ \A pos \in Occurrences(p) : groups[pos[1]].Title = analysis[k].Title

\* A pair named by both proposed groups, and a pair named twice by one group,
\* were reconciled.
C3_Witness ==
    /\ Reconciled
    /\ Len(analysis) = 2
    /\ NamedBy(analysis[1]) \cap NamedBy(analysis[2]) # {}
    /\ FirstNamedBy(2) # {}

\* C4: every returned group holds at least one hunk reference.
C4_NoEmptyGroup == Done => \A g \in 1..Len(groups) : Len(groups[g].Hunks) >= 1

\* The second proposed group named valid pairs, all of them assigned before.
C4_Witness ==
    /\ Reconciled
    /\ Len(analysis) = 2
    /\ NamedBy(analysis[2]) # {}
    /\ FirstNamedBy(2) = {}

\* C5: after a reconciliation the result is, in response order, one group per
\* proposed group that is the first to name some pair, with the proposal's
\* title and description and exactly those pairs, followed by one singleton
\* group per hunk no proposal names, in ascending file-then-hunk order.
C5_ReconciledThenSingletons ==
    Reconciled =>
        LET n == Cardinality(Kept) IN
        /\ Len(groups) = n + Cardinality(HunkRefs \ Named)
        /\ \A k \in Kept : /\ groups[Rank(k)].Title = analysis[k].Title
                           /\ groups[Rank(k)].Description = analysis[k].Description
                           /\ RefsOf(Rank(k)) = FirstNamedBy(k)
        /\ \A g \in (n + 1)..Len(groups) : /\ Len(groups[g].Hunks) = 1
                                           /\ RefsOf(g) \subseteq HunkRefs \ Named
        /\ \A g \in (n + 1)..Len(groups) : \A g2 \in (g + 1)..Len(groups) :
               RefLess(RefAt(<<g, 1>>), RefAt(<<g2, 1>>))

\* Two proposed groups were kept and two hunks were left to the sweep.
C5_Witness == Reconciled /\ Cardinality(Kept) = 2 /\ Cardinality(HunkRefs \ Named) = 2

\* The file and the hunk of the Diff a returned reference leads to.
FileAt(pos) == At(d.Files, RefAt(pos)[1])

HunkAt(pos) == At(FileAt(pos).Hunks, RefAt(pos)[2])

\* The title rule with the precedence added > deleted > renamed > hunk
\* header > generic.
TitleByRule(f, h) ==
    CASE f.IsNew -> "Add " \o f.NewPath
      [] ~f.IsNew /\ f.IsDeleted -> "Remove " \o f.OldPath
      [] ~f.IsNew /\ ~f.IsDeleted /\ f.IsRenamed -> "Rename " \o f.OldPath \o " to " \o f.NewPath
      [] ~f.IsNew /\ ~f.IsDeleted /\ ~f.IsRenamed /\ h.Header # "" ->
             "Update " \o h.Header \o " in " \o f.NewPath
      [] OTHER -> "Modify " \o f.NewPath

\* The title rule with the precedence renamed > added > deleted > hunk
\* header > generic.
TitleRenamedFirst(f, h) ==
    CASE f.IsRenamed -> "Rename " \o f.OldPath \o " to " \o f.NewPath
      [] ~f.IsRenamed /\ f.IsNew -> "Add " \o f.NewPath
      [] ~f.IsRenamed /\ ~f.IsNew /\ f.IsDeleted -> "Remove " \o f.OldPath
      [] ~f.IsRenamed /\ ~f.IsNew /\ ~f.IsDeleted /\ h.Header # "" ->
             "Update " \o h.Header \o " in " \o f.NewPath
      [] OTHER -> "Modify " \o f.NewPath

\* The analyzer call of this invocation did not succeed.
Failed(err) == err \in RunFailures \cup {"parse"}

\* C6: when the analyzer failed in this invocation and in an earlier one on
\* the same Diff, whatever the two failures were, the two results are equal:
\* the same groups in the same order with the same titles, descriptions and
\* references.
C6_DeterministicFallback ==
    (Done /\ Failed(aiErr)) =>
        \A n \in 1..Len(history) : Failed(history[n].aiErr) => history[n].groups = groups

\* A second invocation fell back after a timeout where the first one fell
\* back after an unparseable response.
C6_Witness ==
    /\ Done
    /\ run = 2
    /\ aiErr = "timeout"
    /\ history[1].aiErr = "parse"
    /\ Len(groups) > 1

\* C7: when the structured call failed or its response did not parse and the
\* Diff has more than one hunk, the result is one singleton group per hunk in
\* ascending file-then-hunk order, each titled by the title rule.
C7_FallbackPerHunk ==
    (Done /\ calls.analyze = 1 /\ Failed(aiErr) /\ Cardinality(HunkRefs) > 1) =>
        /\ Len(groups) = Cardinality(HunkRefs)
        /\ \A g \in 1..Len(groups) :
               /\ Len(groups[g].Hunks) = 1
               /\ RefAt(<<g, 1>>) \in HunkRefs
               /\ groups[g].Title = TitleByRule(FileAt(<<g, 1>>), HunkAt(<<g, 1>>))
        /\ \A g \in 1..Len(groups) : \A g2 \in (g + 1)..Len(groups) :
               RefLess(RefAt(<<g, 1>>), RefAt(<<g2, 1>>))

\* The response was prose and the Diff has two files and more than two hunks.
C7_Witness ==
    /\ Done
    /\ aiErr = "parse"
    /\ Len(d.Files) = 2
    /\ Cardinality(HunkRefs) > 2
    /\ Len(groups) > 2

\* C8 as stated: every title made by the title rule follows the precedence
\* renamed > added > deleted > hunk header > generic.
C8_RenamedFirst ==
    Done =>
        \A g \in 1..Len(groups) :
            groups[g].Title = TitleRenamedFirst(FileAt(<<g, 1>>), HunkAt(<<g, 1>>))

\* C8 as amended: every title made by the title rule follows the precedence
\* added > deleted > renamed > hunk header > generic.
C8_AddedFirst ==
    Done =>
        \A g \in 1..Len(groups) :
            groups[g].Title = TitleByRule(FileAt(<<g, 1>>), HunkAt(<<g, 1>>))

\* A group was titled for a file with the three status flags set.
C8_Witness ==
    /\ Done
    /\ \E g \in 1..Len(groups) : /\ FileAt(<<g, 1>>).IsRenamed
                                 /\ FileAt(<<g, 1>>).IsNew
                                 /\ FileAt(<<g, 1>>).IsDeleted

\* C9: for a Diff of one file with one hunk the result is one group holding
\* that hunk, titled by the title rule, described by the analyzer's
\* description when the description call succeeded and by "Changes to <new
\* path>" when it failed.
C9_SingleHunk ==
    (Done /\ Len(d.Files) = 1 /\ Cardinality(HunkRefs) = 1) =>
        /\ Len(groups) = 1
        /\ Len(groups[1].Hunks) = 1
        /\ RefAt(<<1, 1>>) = <<0, 0>>
        /\ groups[1].Title = TitleByRule(d.Files[1], d.Files[1].Hunks[1])
        /\ groups[1].Description = IF aiErr = "nil" THEN desc
                                   ELSE "Changes to " \o d.Files[1].NewPath

\* The description call timed out for a file whose old and new path differ.
C9_Witness ==
    /\ Done
    /\ Len(d.Files) = 1
    /\ Cardinality(HunkRefs) = 1
    /\ aiErr = "timeout"
    /\ d.Files[1].OldPath # d.Files[1].NewPath

\* C10: for a Diff without hunks GroupDiff issues no analyzer call, starts no
\* spinner and returns no group.
C10_NoHunksNoCall ==
    HunkRefs = {} => /\ pc \in {"idle", "done"}
                     /\ calls = NoCalls
                     /\ spinStarts = 0
                     /\ ~spinning
                     /\ Done => (groups = <<>> /\ retErr = "nil")

\* GroupDiff has returned for a Diff that only renames a file.
C10_Witness ==
    /\ Done
    /\ Len(d.Files) = 1
    /\ d.Files[1].IsRenamed
    /\ HunkRefs = {}

\* C11: one invocation of GroupDiff issues at most one analyzer call, the
\* structured grouping call or the description call and never both; while a
\* call is outstanding it is the only one; and when the call has failed the
\* invocation returns after that one call with the result of one fallback
\* pass, every hunk of the Diff once.
C11_AtMostOneCall ==
    /\ calls.analyze + calls.describe <= 1
    /\ pc = "analyze" => calls = [analyze |-> 1, describe |-> 0]
    /\ pc = "describe" => calls = [analyze |-> 0, describe |-> 1]
    /\ (Done /\ Failed(aiErr)) =>
           /\ calls.analyze + calls.describe = 1
           /\ spinStarts = 1
           /\ Cardinality(Positions) = Cardinality(HunkRefs)

\* A second invocation has returned from its fallback pass after its one
\* structured call failed, as the call of the first invocation had.
C11_Witness ==
    /\ Done
    /\ run = 2
    /\ calls = [analyze |-> 1, describe |-> 0]
    /\ aiErr = "exit"
    /\ Failed(history[1].aiErr)
    /\ Len(groups) > 1

\* The entry the cache holds under the hash of the text GroupDiff's analyzer
\* calls are made with.
CachedResult == Get(Entries, HashKey(RawString(d)))

\* C12: when the cache holds an entry under the hash of the request text,
\* GroupDiff issues no analyzer call on either path and the single-hunk path
\* returns the cached description; and a cache that started empty holds an
\* entry only after a successful analyzer call.
C12_CacheShortCircuits ==
    /\ CachedResult.ok /\ startedEmpty => aiErr = "nil"
    /\ CachedResult.ok /\ ~startedEmpty =>
           /\ calls = NoCalls
           /\ pc \in {"idle", "done"}
           /\ (Done /\ Len(d.Files) = 1 /\ Cardinality(HunkRefs) = 1) =>
                  groups[1].Description = CachedResult.value

\* ------------------------------------------------- properties of diff.Parse
\* The i-th line of the input was returned by the scanner.
Returned(i) == LineLength(scanned[i]) < MaxScanTokenSize

TextAt(i) == scanned[i].text

\* The i-th line is a file header; it is a hunk header of an open file.
FileHeaderAt(i) == Returned(i) /\ diffHeaderRe(TextAt(i)) # <<>>

HunkHeaderAt(i) ==
    /\ Returned(i)
    /\ hunkHeaderRe(TextAt(i)) # <<>>
    /\ \E j \in 1..(i - 1) : FileHeaderAt(j)

\* A hunk is open; the place of its header in the input, and the places of
\* the lines that follow the header.
HunkOpen == currentHunk # <<>>

OpenHeader == CHOOSE i \in 1..Len(scanned) :
                  HunkHeaderAt(i) /\ \A j \in (i + 1)..Len(scanned) : ~HunkHeaderAt(j)

OpenBody == {i \in (OpenHeader + 1)..Len(scanned) : Returned(i)}

\* The number a digit string denotes.
RECURSIVE Number(_, _)
Number(digits, acc) ==
    IF digits = <<>> THEN acc ELSE Number(Tail(digits), acc * 10 + DigitValue(Head(digits)))

\* The starts and counts the header of the open hunk declares; a count left
\* out is 1.
Declared ==
    LET m == hunkHeaderRe(TextAt(OpenHeader))
    IN [o |-> Number(m[1], 0), oc |-> IF m[2] = <<>> THEN 1 ELSE Number(m[2], 0),
        n |-> Number(m[3], 0), nc |-> IF m[4] = <<>> THEN 1 ELSE Number(m[4], 0)]

\* A line record touches the old side, the new side.
OldSide(l) == l.Type \in {"Removed", "Context"}

NewSide(l) == l.Type \in {"Added", "Context"}

\* A line of a hunk body is a line of the old file, of the new file: it
\* starts with '-' or ' ', with '+' or ' ', or is empty.
TextOldSide(text) == text = <<>> \/ Head(text) \in {"-", " "}

TextNewSide(text) == text = <<>> \/ Head(text) \in {"+", " "}

\* The line records of the open hunk, and the j-th record's place among the
\* records of its side.
OpenLines == currentHunk[1].Lines

OldRank(j) == Cardinality({i \in 1..j : OldSide(OpenLines[i])})

NewRank(j) == Cardinality({i \in 1..j : NewSide(OpenLines[i])})

\* The body of the open hunk has as many old-side and new-side lines as the
\* header declares.
BodyConsistent ==
    /\ Cardinality({i \in OpenBody : TextOldSide(TextAt(i))}) = Declared.oc
    /\ Cardinality({i \in OpenBody : TextNewSide(TextAt(i))}) = Declared.nc

\* C13: in a hunk whose header declares old start o and new start n, the
\* k-th record that touches the old side has oldNum = o + k - 1 and the k-th
\* that touches the new side has newNum = n + k - 1; an Added record has
\* oldNum 0 and a Removed record newNum 0; and when the body has as many
\* old-side and new-side lines as the header declares, so has the hunk.
C13_LineNumbering ==
    HunkOpen =>
        /\ \A j \in 1..Len(OpenLines) :
               /\ OldSide(OpenLines[j]) => OpenLines[j].OldNum = Declared.o + OldRank(j) - 1
               /\ NewSide(OpenLines[j]) => OpenLines[j].NewNum = Declared.n + NewRank(j) - 1
               /\ OpenLines[j].Type = "Added" => OpenLines[j].OldNum = 0
               /\ OpenLines[j].Type = "Removed" => OpenLines[j].NewNum = 0
        /\ BodyConsistent =>
               /\ Cardinality({j \in 1..Len(OpenLines) : OldSide(OpenLines[j])}) = Declared.oc
               /\ Cardinality({j \in 1..Len(OpenLines) : NewSide(OpenLines[j])}) = Declared.nc

\* The line the scanner returned in this step, when the step is a pass of
\* the loop of Parse.
LoopPass == ppc = "scan" /\ ppc' = "scan" /\ Len(scanned') = Len(scanned) + 1

ThisLine == scanned'[Len(scanned')].text

\* A line that reaches the switch over hunk lines when a hunk is open: no
\* header, status line or path marker.
ContentLine(text) ==
    /\ diffHeaderRe(text) = <<>>
    /\ \A prefix \in {NewFileMode, DeletedFileMode, RenameFrom, RenameTo, BinaryFiles,
                      IndexLine, SimilarityIndex} : ~HasPrefix(text, prefix)
    /\ oldFileRe(text) = <<>>
    /\ newFileRe(text) = <<>>
    /\ hunkHeaderRe(text) = <<>>

\* The open hunk gets one Context record for the line, with both counters,
\* and both counters are incremented.
RecordedAsContext(content) ==
    /\ currentHunk' = <<[currentHunk[1] EXCEPT !.Lines =
                            Append(@, [Type |-> "Context", Content |-> content,
                                       OldNum |-> oldLineNum, NewNum |-> newLineNum])]>>
    /\ oldLineNum' = Inc(oldLineNum)
    /\ newLineNum' = Inc(newLineNum)

\* C14 as stated: while a hunk is open, every content line that starts with
\* neither '+' nor '-' is recorded as a Context line with both counters, and
\* both counters are incremented.
C14_EveryOtherLineIsContext ==
    [][(LoopPass /\ HunkOpen /\ ContentLine(ThisLine)
        /\ ~HasPrefix(ThisLine, <<"+">>) /\ ~HasPrefix(ThisLine, <<"-">>)) =>
           RecordedAsContext(IF HasPrefix(ThisLine, <<" ">>) THEN Drop(ThisLine, 1)
                             ELSE ThisLine)]_vars

\* C14 as amended: while a hunk is open, a line that starts with a space and
\* the empty line are recorded as a Context line with both counters, and both
\* counters are incremented; a content line that starts with any other
\* character than '+', '-' and ' ' is dropped: the hunk gets no line record
\* and the counters stay.
C14_SpaceOrEmptyIsContext ==
    [][(LoopPass /\ HunkOpen) =>
           /\ HasPrefix(ThisLine, <<" ">>) => RecordedAsContext(Drop(ThisLine, 1))
           /\ ThisLine = <<>> => RecordedAsContext(<<>>)
           /\ (ContentLine(ThisLine) /\ ThisLine # <<>>
               /\ Head(ThisLine) \notin {"+", "-", " "}) =>
                  UNCHANGED <<currentHunk, oldLineNum, newLineNum>>]_vars

\* The body of the open hunk is an empty line followed by the line
\* "\ No newline": the hunk holds the one Context record of the empty line.
C14_Witness ==
    /\ HunkOpen
    /\ Len(scanned) = 4
    /\ OpenBody = {3, 4}
    /\ TextAt(3) = <<>>
    /\ TextAt(4) = <<"\\", " ", "N", "o", " ", "n", "e", "w", "l", "i", "n", "e">>
    /\ Len(OpenLines) = 1
    /\ OpenLines[1].Type = "Context"
    /\ oldLineNum = currentHunk[1].OldStart + 1

\* A returned line has the syntax of a hunk header and one of its numeric
\* fields does not parse as an int.
MalformedHunkHeader(text) ==
    /\ hunkHeaderRe(text) # <<>>
    /\ \E k \in 1..4 : hunkHeaderRe(text)[k] # <<>> /\ Atoi(hunkHeaderRe(text)[k]).err # "nil"

\* C15: Parse returns an error when a line of the input has the syntax of a
\* hunk header with a numeric field that does not parse as an integer, and
\* for no other input, whatever the lines and their lengths.
C15_ErrorOnlyForMalformedHeader ==
    ppc = "returned" =>
        (parseErr # "nil" <=> \E i \in 1..Len(scanned) : MalformedHunkHeader(TextAt(i)))

\* A file is open; the place of its header in the input.
FileOpen == currentFile # <<>>

OpenFileHeader == CHOOSE i \in 1..Len(scanned) :
                      FileHeaderAt(i) /\ \A j \in (i + 1)..Len(scanned) : ~FileHeaderAt(j)

\* The places of the old-path and new-path marker lines of the open file that
\* name another path than the sentinel.
OldMarkers == {i \in (OpenFileHeader + 1)..Len(scanned) :
                  /\ Returned(i)
                  /\ oldFileRe(TextAt(i)) # <<>>
                  /\ oldFileRe(TextAt(i))[1] # DevNull}

NewMarkers == {i \in (OpenFileHeader + 1)..Len(scanned) :
                  /\ Returned(i)
                  /\ newFileRe(TextAt(i)) # <<>>
                  /\ newFileRe(TextAt(i))[1] # DevNull}

Last(S) == CHOOSE i \in S : \A j \in S : j <= i

\* C16: the old path of the open file is the path of the last old-path
\* marker line that names another path than /dev/null, and the path of the
\* file header when there is none; the same for the new path.  So a marker
\* with /dev/null leaves both paths as they are, and any other marker
\* replaces its path.
C16_SentinelIgnored ==
    FileOpen =>
        /\ currentFile[1].OldPath = IF OldMarkers = {}
                                    THEN diffHeaderRe(TextAt(OpenFileHeader))[1]
                                    ELSE oldFileRe(TextAt(Last(OldMarkers)))[1]
        /\ currentFile[1].NewPath = IF NewMarkers = {}
                                    THEN diffHeaderRe(TextAt(OpenFileHeader))[2]
                                    ELSE newFileRe(TextAt(Last(NewMarkers)))[1]

\* A new file: after the file header the old-path marker names /dev/null
\* and the new-path marker names w.
C16_Witness ==
    /\ FileOpen
    /\ Len(scanned) = 3
    /\ OpenFileHeader = 1
    /\ oldFileRe(TextAt(2)) = <<DevNull>>
    /\ newFileRe(TextAt(3)) = <<<<"w">>>>
    /\ currentFile[1].OldPath = <<"x">>
    /\ currentFile[1].NewPath = <<"w">>

\* ------------------------------------------------ properties of the cache
\* The sum of len(key) + len(value) over the entries.
SizeSum(entries) ==
    LET sum[i \in 0..Len(entries)] ==
            IF i = 0 THEN 0 ELSE sum[i - 1] + Len(entries[i].Key) + Len(entries[i].Value)
    IN sum[Len(entries)]

\* Get(k) was called right after Set(k, v).
GetAfterSet == lastOp.op = "Get" /\ lastOp.after.op = "Set" /\ lastOp.after.key = lastOp.key

\* C17 as stated: Get(k) right after Set(k, v) returns v with a hit, whatever
\* the cache held and whatever the size of the entry.
C17_SetThenGetAlways ==
    GetAfterSet => /\ lastOp.ok
                   /\ lastOp.value = lastOp.after.value

\* C17 as amended: Get(k) right after Set(k, v) returns v with a hit when
\* len(k) + len(v) is at most the budget and no other entry was created at
\* or after the time of the Set; when len(k) + len(v) is larger than the
\* budget, the Set evicts its own entry and Get(k) misses.
C17_SetThenGetWithinBudget ==
    GetAfterSet =>
        LET size == Len(lastOp.key) + Len(lastOp.after.value)
        IN /\ (size <= maxSize /\ lastOp.after.newest) =>
                  (lastOp.ok /\ lastOp.value = lastOp.after.value)
           /\ size > maxSize => (~lastOp.ok /\ lastOp.value = "")

\* Get hit right after a Set that filled the budget to the last byte, and
\* whose entry is the only one left of a cache that was loaded from a file.
C17_Witness ==
    /\ GetAfterSet
    /\ lastOp.ok
    /\ lastOp.after.newest
    /\ ~startedEmpty
    /\ Len(lastOp.key) + Len(lastOp.value) = maxSize
    /\ Len(Entries) = 1

\* A step of Set; the entries it starts from, without the one it replaces
\* and with the new one; those it evicts.
SetStep == lastOp'.op = "Set"

Candidates == {e \in Range(Entries) : e.Key # lastOp'.key}
                  \cup {[Key |-> lastOp'.key, Value |-> lastOp'.value,
                         Size |-> Len(lastOp'.key) + Len(lastOp'.value),
                         CreatedAt |-> lastOp'.t]}

Evicted == Candidates \ Range(Entries')

Sizes(S) == SizeSum(CHOOSE seq \in [1..Cardinality(S) -> S] : Range(seq) = S)

\* The retained entries are the candidates not evicted, no retained entry
\* is older than an evicted one, and the retained entries fit the budget.
NewestRetained ==
    /\ Range(Entries') \subseteq Candidates
    /\ Len(Entries') = Cardinality(Range(Entries'))
    /\ \A r \in Range(Entries') : \A e \in Evicted : r.CreatedAt >= e.CreatedAt
    /\ Sizes(Range(Entries')) <= maxSize

\* C18 as stated: after a Set that evicts, the retained entries are the most
\* recently created ones, within the budget, and no evicted entry could have
\* been kept next to them without exceeding the budget.
C18_NoEvictedEntryFits ==
    [][(SetStep /\ Evicted # {}) =>
           /\ NewestRetained
           /\ \A e \in Evicted : Sizes(Range(Entries')) + e.Size > maxSize]_vars

\* C18 as amended: after a Set that evicts, the retained entries are the most
\* recently created ones, within the budget, and the run is the longest: a
\* most recently created one of the evicted entries could not have been kept
\* next to them without exceeding the budget.
C18_LongestRecentRun ==
    [][(SetStep /\ Evicted # {}) =>
           /\ NewestRetained
           /\ \E e \in Evicted :
                  /\ \A e2 \in Evicted : e2.CreatedAt <= e.CreatedAt
                  /\ Sizes(Range(Entries')) + e.Size > maxSize]_vars

\* A Set has left the newer two of three entries, the budget filled to the
\* last byte.
C18_Witness ==
    /\ lastOp.op = "Set"
    /\ Len(Entries) = 2
    /\ TotalSize(Entries) = maxSize
    /\ Entries[1].CreatedAt < Entries[2].CreatedAt
    /\ Entries[2].Key = lastOp.key
    /\ file = WrittenFile(Entries)
    /\ \E k \in Keys : latest[k] # "none" /\ \A e \in Range(Entries) : e.Key # k

\* C19: when Set has returned, the sizes of the entries sum to the budget at
\* most, also in a cache that was loaded from a file; and TotalSize returns
\* the sum of the sizes of the entries.
C19_WithinBudget ==
    /\ lastOp.op = "Set" => SizeSum(Entries) <= maxSize
    /\ lastOp.op = "TotalSize" => lastOp.total = SizeSum(Entries)

\* Set has returned in a cache loaded from a file, with an entry of the file
\* next to the new one and the budget filled to the last byte.
C19_Witness ==
    /\ lastOp.op = "Set"
    /\ ~startedEmpty
    /\ Len(Entries) = 2
    /\ SizeSum(Entries) = maxSize
    /\ \E e \in Range(Entries) : e.Key # lastOp.key /\ latest[e.Key] = "none"

\* C20: in a cache that started empty, after any Sets and Clears no two
\* entries have one key, every entry holds the value of the latest Set of its
\* key, and a Get that hits returns that value.
C20_ReplaceNotMerge ==
    startedEmpty =>
        /\ \A i, j \in 1..Len(Entries) : i # j => Entries[i].Key # Entries[j].Key
        /\ \A e \in Range(Entries) : e.Value = latest[e.Key]
        /\ (lastOp.op = "Get" /\ lastOp.ok) => lastOp.value = latest[lastOp.key]

\* In a cache that started empty Get hits on the second of two entries after
\* three readings of the clock.
C20_Witness ==
    /\ startedEmpty
    /\ lastOp.op = "Get"
    /\ lastOp.ok
    /\ Len(Entries) = 2
    /\ Entries[2].Key = lastOp.key
    /\ Entries[2].CreatedAt = 2
    /\ Entries[1].CreatedAt = 1

\* ----------------------------------------- properties of the cache's file
\* C21: a Cache constructed from the file a Set or Clear has left holds the
\* entries the Cache held after that mutation, with the same key, value,
\* size and time of creation; a Cache constructed over a missing or corrupt
\* file is empty.
C21_Persistence ==
    /\ (lastOp.op = "New" /\ "held" \in DOMAIN lastOp /\ cachePath # "") =>
           Entries = lastOp.held
    /\ (lastOp.op = "New" /\ lastOp.from \in {"missing", "garbage", "damaged"}) =>
           Entries = <<>>

\* ------------------------------------------------- properties of config.Load
\* Load was called with a regular file of valid JSON settings at configDir
\* and has returned.
LegacySettings ==
    /\ cpc = "returned"
    /\ home
    /\ diskAtLoad[Dir].kind = "file"
    /\ diskAtLoad[Dir].data[1].valid

\* The Config of the settings of a file: the defaults, overwritten by the
\* members of the file, with 5 for a cache size that is not positive.
Honoured(data) ==
    [Theme |-> IF "theme" \in DOMAIN data.doc THEN data.doc.theme ELSE "auto",
     Model |-> IF "model" \in DOMAIN data.doc THEN data.doc.model ELSE "sonnet",
     Style |-> "",
     CacheSizeMB |-> IF "cache_size_mb" \in DOMAIN data.doc /\ data.doc.cache_size_mb > 0
                     THEN data.doc.cache_size_mb ELSE 5]

\* C22: when configDir is a regular file of valid JSON settings, Load
\* returns those settings and leaves them on disk, in config.json.
C22_LegacySettingsHonoured ==
    LegacySettings =>
        /\ loaded = <<Honoured(diskAtLoad[Dir].data[1])>>
        /\ disk[NewPath] = diskAtLoad[Dir]

\* ---------------------------------------------- properties of BuildCatalog
\* C23: the catalog BuildCatalog returns has one file summary per file, with
\* the position of the file as Index, one hunk summary per hunk of the file,
\* with the position of the hunk in its file as Index, and the number of all
\* hunks as TotalHunks; the files passed are as they were.
C23_CatalogPreservesIndices ==
    [][kpc' = "returned" =>
          LET c == built'[1]
          IN /\ Len(c.Files) = Len(infos)
             /\ \A i \in 1..Len(infos) :
                    /\ c.Files[i].Index = i - 1
                    /\ Len(c.Files[i].Hunks) = Len(infos[i].Hunks)
                    /\ \A j \in 1..Len(infos[i].Hunks) : c.Files[i].Hunks[j].Index = j - 1
             /\ c.TotalHunks = CountHunks(infos, 1)
             /\ infos' = infos]_vars

\* A catalog of two files with two hunks each.
C23_Witness ==
    /\ kpc = "returned"
    /\ Len(built[1].Files) = 2
    /\ built[1].TotalHunks = 4
    /\ built[1].Files[2].Hunks[2].Index = 1
    /\ built[1].Files[2].Index = 1

\* --------------------------------------- properties of the index handling
\* The k-th proposed group holds an index that is out of range: a file index
\* that is no position of d.Files, or a listed hunk index that is no position
\* of the hunks of its file.
FileIndexOutOfRange(ag, i) == ag.FileIndices[i] < 0 \/ ag.FileIndices[i] >= Len(d.Files)

HunkIndexOutOfRange(ag, i) ==
    /\ ~FileIndexOutOfRange(ag, i)
    /\ i <= Len(ag.HunkIndices)
    /\ \E j \in 1..Len(ag.HunkIndices[i]) :
           \/ ag.HunkIndices[i][j] < 0
           \/ ag.HunkIndices[i][j] >= Len(At(d.Files, ag.FileIndices[i]).Hunks)

HasOutOfRange(ag) ==
    \E i \in 1..Len(ag.FileIndices) : FileIndexOutOfRange(ag, i) \/ HunkIndexOutOfRange(ag, i)

\* The structured call has returned groups.
Answered == calls.analyze = 1 /\ aiErr = "nil"

\* C24: when the response holds indices out of range GroupDiff still returns
\* without failure; no returned reference comes from such an index, and the
\* valid pairs a proposed group is the first to name are assigned to its
\* group although the group holds indices out of range too.
C24_OutOfRangeDropped ==
    (Answered /\ \E k \in 1..Len(analysis) : HasOutOfRange(analysis[k])) =>
        /\ pc = "done"
        /\ retErr = "nil"
        /\ \A pos \in Positions : RefAt(pos) \in HunkRefs
        /\ \A k \in 1..Len(analysis) :
               (HasOutOfRange(analysis[k]) /\ FirstNamedBy(k) # {}) =>
                   \E g \in 1..Len(groups) : /\ groups[g].Title = analysis[k].Title
                                             /\ RefsOf(g) = FirstNamedBy(k)

\* One proposed group held a file index past the last file, a hunk index
\* past the last hunk and a valid pair, and the pair was assigned to it.
C24_Witness ==
    /\ Reconciled
    /\ Len(analysis) = 1
    /\ \E i \in 1..Len(analysis[1].FileIndices) :
           analysis[1].FileIndices[i] >= Len(d.Files)
    /\ \E i \in 1..Len(analysis[1].FileIndices) :
           /\ HunkIndexOutOfRange(analysis[1], i)
           /\ \E j \in 1..Len(analysis[1].HunkIndices[i]) : analysis[1].HunkIndices[i][j] > 0
    /\ FirstNamedBy(1) # {}
    /\ groups[1].Title = analysis[1].Title

\* The positions of the file index list of the k-th proposed group whose file
\* index is valid and occurs at no other position of the list.
SoleValid(k) ==
    {i \in 1..Len(analysis[k].FileIndices) :
        /\ ~FileIndexOutOfRange(analysis[k], i)
        /\ \A i2 \in 1..Len(analysis[k].FileIndices) :
               i2 # i => analysis[k].FileIndices[i2] # analysis[k].FileIndices[i]}

\* The pairs assigned to proposed groups before the k-th.
AssignedBefore(k) == UNION {NamedBy(analysis[j]) : j \in 1..(k - 1)}

\* The references, in order, of the group made from the k-th proposed group;
\* none when no group was made from it.
GroupHunks(k) ==
    IF k \in Kept
    THEN LET hs == groups[Rank(k)].Hunks
         IN [n \in 1..Len(hs) |-> hs[n]]
    ELSE <<>>

\* The hunks of file f it holds, and their order.
ReceivedOf(k, f) ==
    {h.Hunk : h \in {x \in Range(GroupHunks(k)) : x.File = f}}

Ascending(k, f) ==
    LET hs == GroupHunks(k)
    IN \A a, b \in 1..Len(hs) : (a < b /\ hs[a].File = f /\ hs[b].File = f) => hs[a].Hunk < hs[b].Hunk

\* C25: a proposed group with a file index and no hunk index list at its
\* position receives every hunk of the file that is not yet assigned, in
\* ascending order; with a list at the position it receives of that file
\* only hunks the list names, and none when the list is empty.
C25_AbsentListMeansAllHunks ==
    Reconciled =>
        \A k \in 1..Len(analysis) : \A i \in SoleValid(k) :
            LET f == analysis[k].FileIndices[i]
                all == {p[2] : p \in {q \in HunkRefs : q[1] = f}}
                free == {j \in all : <<f, j>> \notin AssignedBefore(k)}
            IN IF i > Len(analysis[k].HunkIndices)
               THEN ReceivedOf(k, f) = free /\ Ascending(k, f)
               ELSE /\ ReceivedOf(k, f) \subseteq Range(analysis[k].HunkIndices[i])
                    /\ analysis[k].HunkIndices[i] = <<>> => ReceivedOf(k, f) = {}

\* The response named file 0 with an empty list and file 1 with no list: the
\* group got both hunks of file 1 and none of file 0.
C25_Witness ==
    /\ Reconciled
    /\ Len(analysis) = 1
    /\ analysis[1].FileIndices = <<0, 1>>
    /\ analysis[1].HunkIndices = <<<<>>>>
    /\ Len(groups[1].Hunks) = 2
    /\ groups[1].Title = analysis[1].Title
    /\ ReceivedOf(1, 1) = {0, 1}
    /\ Len(At(d.Files, 0).Hunks) > 0

\* The open hunk gets one record of the given kind for the line, numbered
\* with the counter of its side, and that counter is incremented.
RecordedAs(kind, content) ==
    /\ currentHunk' = <<[currentHunk[1] EXCEPT !.Lines =
                            Append(@, [Type |-> kind, Content |-> content,
                                       OldNum |-> IF kind = "Removed" THEN oldLineNum ELSE 0,
                                       NewNum |-> IF kind = "Added" THEN newLineNum ELSE 0])]>>
    /\ oldLineNum' = IF kind = "Removed" THEN Inc(oldLineNum) ELSE oldLineNum
    /\ newLineNum' = IF kind = "Added" THEN Inc(newLineNum) ELSE newLineNum

\* The paths and the status flags of the open file stay as they are.
PathsAndFlagsKept ==
    \A field \in {"OldPath", "NewPath", "IsNew", "IsDeleted", "IsRenamed", "IsBinary"} :
        currentFile'[1][field] = currentFile[1][field]

\* C26: while a hunk is open, every line that is no file header and starts
\* with '+' is recorded as an Added line and every line that starts with '-'
\* as a Removed line, each advancing its counter, and the line changes none
\* of the paths and status flags of the file; lines of the texts "++ ..."
\* and "-- ..." ("+++ ..." and "--- ..." in the diff) are among them.
C26_AddedAndRemovedRecorded ==
    [][(LoopPass /\ HunkOpen /\ diffHeaderRe(ThisLine) = <<>>) =>
           /\ HasPrefix(ThisLine, <<"+">>) =>
                  RecordedAs("Added", Drop(ThisLine, 1)) /\ PathsAndFlagsKept
           /\ HasPrefix(ThisLine, <<"-">>) =>
                  RecordedAs("Removed", Drop(ThisLine, 1)) /\ PathsAndFlagsKept]_vars

\* The places of the file headers in the input, and the k-th smallest
\* member of a set of places.
FileHeaders == {i \in 1..Len(scanned) : FileHeaderAt(i)}

Nth(S, k) == CHOOSE i \in S : Cardinality({j \in S : j <= i}) = k

\* The places of the hunk headers between the file header at h and the next
\* file header, or the end of the input read.
HunkHeadersOf(h) ==
    {i \in (h + 1)..Len(scanned) :
        /\ Returned(i)
        /\ hunkHeaderRe(TextAt(i)) # <<>>
        /\ \A j \in (h + 1)..i : ~FileHeaderAt(j)}

\* The hunk is the one the hunk header at place i opens.
HunkOf(hunk, i) ==
    \A field \in {"OldStart", "OldCount", "NewStart", "NewCount", "Header"} :
        hunk[field] = NewHunk(hunkHeaderRe(TextAt(i)))[field]

ReferencesIntoDiff ==
    \A k \in 1..Len(groups) : \A n \in 1..Len(groups[k].Hunks) : groups[k].Hunks[n].InDiff

\* C28: every file and hunk reference in the groups GroupDiff returns leads
\* to the element of the input Diff itself and not to a copy, on the general
\* path, the fallback path and the single-hunk path, and GroupDiff leaves
\* the Diff as it is.
C28_ReferencesNotCopies ==
    /\ [](Done => ReferencesIntoDiff)
    /\ [][d' = d]_vars

\* The hunks of a Diff, file by file: per hunk the starts, the counts, the
\* header and the line records.
HunkStructure(df) == [k \in 1..Len(df.Files) |-> df.Files[k].Hunks]

\* C29: for the Diff d that Parse returned, Parse(d.RawString()) has as many
\* files as d and, file by file, the same hunks: equal starts and counts,
\* equal header and equal line records (kind, content, oldNum, newNum).
C29_RoundTrip ==
    ppc = "reparsed" => HunkStructure(reparsed[1].diff) = HunkStructure(diff)

\* Stop has returned to GroupDiff.
Stopped == spc \in {"stopped", "returned"}

\* The goroutine has left its loop.
LoopLeft == gpc \in {"clearUnlock", "close", "exited"}

\* The writes to the output do not lie inside one another: what begins ends
\* before the next begins.
WritesWhole ==
    \A i \in 1..Len(out) :
        IF i % 2 = 1
        THEN out[i].part = "begin"
        ELSE out[i].part = "end" /\ out[i].kind = out[i - 1].kind

\* The writes of the clearing sequence that are complete.
Clears == {i \in 1..Len(out) : out[i] = WriteEnd("clear")}

\* C30: when Stop has returned, the goroutine of Start has written the
\* clearing sequence and has ended; the clearing sequence is the last write
\* of the goroutine and is written once, so no frame is written once Stop
\* has returned; the writes to the output do not lie inside one another; and
\* when GroupDiff returns, with the analyzer call failed or not, the spinner
\* has been started once and stopped once.
C30_SpinnerShutdown ==
    /\ Stopped => gpc = "exited" /\ Clears = {Len(out)}
    /\ LoopLeft => Clears = {Len(out)}
    /\ ~LoopLeft => Clears = {}
    /\ WritesWhole
    /\ Stopped => starts = 1 /\ stops = 1 /\ callErr \in {"nil", "exit"}
    /\ starts <= 1 /\ stops <= starts

\* GroupDiff has returned after an analyzer call that failed, the spinner
\* having written frames and then the clearing sequence.
C30_Witness ==
    /\ spc = "returned"
    /\ callErr = "exit"
    /\ gpc = "exited"
    /\ frame = MaxFrames
    /\ Len(out) = 2 * MaxFrames + 2
    /\ out[Len(out)] = WriteEnd("clear")
    /\ starts = 1
    /\ stops = 1

\* The program runs or has ended with a quit key.
Shown == tpc \in {"running", "quit"}

\* C31: in every state reached through key and window-size messages,
\* scrollOffset is at least 0 and at most max(0, number of lines of the
\* current group - contentHeight), and the percentage of the status line is
\* at most 100.
C31_ScrollBound ==
    Shown =>
        /\ 0 <= tui.scrollOffset
        /\ tui.scrollOffset <= Max(Len(tui.lines) - contentHeight(tui), 0)
        /\ View(tui).progress => View(tui).pct <= 100

\* The keys that move to another group.
LeftKeys == {"left", "h"}

RightKeys == {"right", "l"}

\* The last message moved to another group.
Moved == lastMsg.msg \in LeftKeys \cup RightKeys /\ lastMsg.groupIndex # tui.groupIndex

\* C32: in every state reached through key and window-size messages,
\* groupIndex is an index of the group list when the list is not empty and
\* scrollOffset lies between 0 and the number of lines, so that neither
\* rebuildLines nor View indexes out of range; the lines are those of the
\* current group; a move to another group goes to the neighbouring group
\* and sets scrollOffset to 0; and a move left at the first group or right
\* at the last group changes nothing.
C32_IndexSafety ==
    /\ tpc # "panic"
    /\ Shown =>
        /\ tui.groups # <<>> => InRange(tui.groups, tui.groupIndex)
        /\ 0 <= tui.scrollOffset /\ tui.scrollOffset <= Len(tui.lines)
        /\ ~View(tui).panic
        /\ ~rebuildLines(tui).panic /\ rebuildLines(tui).m = tui
        /\ Moved => tui.scrollOffset = 0
        /\ lastMsg.msg \in LeftKeys =>
               tui.groupIndex = IF lastMsg.groupIndex = 0 THEN 0 ELSE lastMsg.groupIndex - 1
        /\ lastMsg.msg \in RightKeys =>
               tui.groupIndex = IF lastMsg.groupIndex >= Len(tui.groups) - 1
                                THEN lastMsg.groupIndex ELSE lastMsg.groupIndex + 1
        /\ (lastMsg.msg \in LeftKeys \cup RightKeys /\ ~Moved) =>
               tui.scrollOffset = lastMsg.scrollOffset
        /\ \A key \in LeftKeys : tui.groupIndex = 0 => UpdateKey(tui, key).m = tui
        /\ \A key \in RightKeys :
               tui.groupIndex = Len(tui.groups) - 1 => UpdateKey(tui, key).m = tui

\* The view was scrolled in the first of two groups, and "l" has moved it to
\* the second and last group with scrollOffset 0, where another "l" changes
\* nothing.
C32_Witness ==
    /\ tpc = "running"
    /\ Len(tui.groups) = 2
    /\ lastMsg = [msg |-> "l", groupIndex |-> 0, scrollOffset |-> 3]
    /\ tui.groupIndex = 1
    /\ tui.scrollOffset = 0
    /\ tui.lines = rebuildLines(tui).m.lines
    /\ tui.groups[1] # tui.groups[2]
    /\ UpdateKey(tui, "l").m = tui

====
